---------------------------- MODULE Spec2Model ----------------------------
(***************************************************************************)
(* Model of stream-schema: the streaming tokenizer (src/src/tokenizer.ts), *)
(* the streaming parser state machine (src/src/parser.ts) and the schema   *)
(* validator (second half of src/src/tokenizer.ts).                        *)
(*                                                                         *)
(* Text is a sequence of one-character strings.  A JavaScript value is a   *)
(* record whose field k is its kind; a path is a sequence of segments,     *)
(* each segment a text.                                                    *)
(*                                                                         *)
(* An intermediate value that a function of the source uses more than once *)
(* is bound as the parameter of a local operator,                          *)
(*     LET Then(x) == ... x ... x ... IN Then(e)                           *)
(* so that the expression e that computes it occurs once.                  *)
(***************************************************************************)
EXTENDS Integers, Sequences, FiniteSets, TLC

VARIABLES
    given,           \* the options object the caller passed to the constructor
    options,         \* ParserOptions after the constructor merged the defaults
    state,           \* StreamingJSONParser.state
    stack,           \* StreamingJSONParser.stack
    result,          \* StreamingJSONParser.result
    errors,          \* StreamingJSONParser.errors
    bytesProcessed,  \* StreamingJSONParser.bytesProcessed
    completedPaths,  \* StreamingJSONParser.completedPaths
    pendingPaths,    \* StreamingJSONParser.pendingPaths
    tokenizer,       \* StreamingTokenizer: buffer, position, inString, stringQuote, expectingKey
    events,          \* the calls made to options.events, in order
    snapshot,        \* what the last feed returned (NoSnapshot before the first feed)
    raised,          \* the last feed raised instead of returning
    doc,             \* the text the caller is streaming
    fed,             \* how many characters of doc the caller has fed
    resets,          \* how many times the caller has called reset
    plain,           \* a second parser, built without the schema and fed the same chunks
    queries,         \* the last canBeType and validate calls made on the SchemaValidator
                     \* directly, each with what it returned
    resolving        \* the SchemaValidator call in progress, step by step: the resolveRef
                     \* invocation it has reached, or how it ended

vars == <<given, options, state, stack, result, errors, bytesProcessed, completedPaths,
          pendingPaths, tokenizer, events, snapshot, raised, doc, fed, resets, plain,
          queries, resolving>>

-----------------------------------------------------------------------------
(* Text helpers *)

Chars(str) == [i \in 1..Len(str) |-> SubSeq(str, i, i)]

\* str.slice(from): the characters from 0-based index `from` on
Slice(s, from) == IF from >= Len(s) THEN <<>> ELSE SubSeq(s, from + 1, Len(s))

\* s.startsWith(prefix)
StartsWith(s, prefix) ==
    /\ Len(prefix) <= Len(s)
    /\ \A i \in 1..Len(prefix) : s[i] = prefix[i]

Digits == {"0", "1", "2", "3", "4", "5", "6", "7", "8", "9"}
LowerCase == {"a", "b", "c", "d", "e", "f", "g", "h", "i", "j", "k", "l", "m",
              "n", "o", "p", "q", "r", "s", "t", "u", "v", "w", "x", "y", "z"}
UpperCase == {"A", "B", "C", "D", "E", "F", "G", "H", "I", "J", "K", "L", "M",
              "N", "O", "P", "Q", "R", "S", "T", "U", "V", "W", "X", "Y", "Z"}

WHITESPACE == {" ", "\t", "\n", "\r", "\f"}
NUMBER_START == Digits \cup {"-"}
NUMBER_CHAR == Digits \cup {"-", "+", ".", "e", "E"}
UNQUOTED_KEY_CHAR == LowerCase \cup UpperCase \cup Digits \cup {"_", "$"}
WordChar == LowerCase \cup UpperCase \cup Digits \cup {"_"}
NumberTail == {"e", "E", ".", "-", "+"}

DigitValue(c) ==
    CASE c = "0" -> 0 [] c = "1" -> 1 [] c = "2" -> 2 [] c = "3" -> 3 [] c = "4" -> 4
      [] c = "5" -> 5 [] c = "6" -> 6 [] c = "7" -> 7 [] c = "8" -> 8 [] c = "9" -> 9

DigitChar(n) ==
    CASE n = 0 -> "0" [] n = 1 -> "1" [] n = 2 -> "2" [] n = 3 -> "3" [] n = 4 -> "4"
      [] n = 5 -> "5" [] n = 6 -> "6" [] n = 7 -> "7" [] n = 8 -> "8" [] n = 9 -> "9"

\* String(n) for a non-negative integer n
RECURSIVE ToDecimal(_)
ToDecimal(n) == IF n < 10 THEN <<DigitChar(n)>>
                ELSE Append(ToDecimal(n \div 10), DigitChar(n % 10))

\* path.join('.')
RECURSIVE Join(_)
Join(path) ==
    IF Len(path) = 0 THEN <<>>
    ELSE IF Len(path) = 1 THEN path[1]
    ELSE path[1] \o <<".">> \o Join(Tail(path))

\* str.trim()
RECURSIVE TrimStart(_)
TrimStart(s) == IF Len(s) > 0 /\ s[1] \in WHITESPACE THEN TrimStart(Tail(s)) ELSE s

RECURSIVE TrimEnd(_)
TrimEnd(s) == IF Len(s) > 0 /\ s[Len(s)] \in WHITESPACE
              THEN TrimEnd(SubSeq(s, 1, Len(s) - 1)) ELSE s

Trim(s) == TrimEnd(TrimStart(s))

-----------------------------------------------------------------------------
(* JavaScript values *)

Undefined == [k |-> "undefined"]
Null == [k |-> "null"]
Bool(b) == [k |-> "boolean", v |-> b]
Num(n) == [k |-> "number", v |-> n]
Str(s) == [k |-> "string", v |-> s]
Arr(items) == [k |-> "array", v |-> items]
Obj(members) == [k |-> "object", v |-> members]   \* members: <<[key, value], ...>> in insertion order
NaN == [k |-> "NaN"]

\* index of key among the members, 0 when absent
MemberIndex(members, key) ==
    IF \E i \in 1..Len(members) : members[i].key = key
    THEN CHOOSE i \in 1..Len(members) : members[i].key = key
    ELSE 0

\* data[key] = value on an object
ObjSet(o, key, value) ==
    LET i == MemberIndex(o.v, key) IN
    IF i = 0 THEN Obj(Append(o.v, [key |-> key, value |-> value]))
    ELSE Obj([o.v EXCEPT ![i] = [key |-> key, value |-> value]])

\* key in value
HasKey(o, key) == MemberIndex(o.v, key) # 0

ObjGet(o, key) == o.v[MemberIndex(o.v, key)].value

-----------------------------------------------------------------------------
(* Options *)

DefaultMaxDepth == 100

\* a ?? b on two fields of a record: a field that is absent is undefined
Nullish(o, a, b, dflt) ==
    IF a \in DOMAIN o THEN o[a] ELSE IF b \in DOMAIN o THEN o[b] ELSE dflt

\* the options object the parser constructor builds from the caller's options
ParserOptions(user) ==
    LET dflt == [maxDepth |-> DefaultMaxDepth, llmMode |-> FALSE, allowTrailingCommas |-> FALSE,
                 allowUnquotedKeys |-> FALSE, allowSingleQuotes |-> FALSE]
    IN  [f \in DOMAIN dflt \cup DOMAIN user |-> IF f \in DOMAIN user THEN user[f] ELSE dflt[f]]

\* the options the parser constructor hands to the tokenizer
TokenizerArgs(o) ==
    [llmMode |-> o.llmMode, allowTrailingCommas |-> o.allowTrailingCommas,
     allowUnquotedKeys |-> o.allowUnquotedKeys, allowSingleQuotes |-> o.allowSingleQuotes]

\* the options the tokenizer constructor keeps
TokenizerOptions(a) ==
    [allowTrailingCommas |-> Nullish(a, "llmMode", "allowTrailingCommas", FALSE),
     allowUnquotedKeys |-> Nullish(a, "llmMode", "allowUnquotedKeys", FALSE),
     allowSingleQuotes |-> Nullish(a, "llmMode", "allowSingleQuotes", FALSE),
     llmMode |-> IF "llmMode" \in DOMAIN a THEN a.llmMode ELSE FALSE]

TokOpts == TokenizerOptions(TokenizerArgs(options))

HasSchema == "schema" \in DOMAIN options

MaxDepthOption == options.maxDepth

-----------------------------------------------------------------------------
(* StreamingTokenizer *)

Token(type, value) == [type |-> type, value |-> value]
NoToken == [type |-> "NONE"]

createInitialState ==
    [buffer |-> <<>>, position |-> 0, inString |-> FALSE, stringQuote |-> "null"]

\* the tokenizer as constructed: its state, its token list and the expecting-key hint
NewTokenizer ==
    [buffer |-> createInitialState.buffer, position |-> createInitialState.position,
     inString |-> createInitialState.inString, stringQuote |-> createInitialState.stringQuote,
     tokens |-> <<>>, expectingKey |-> FALSE]

\* StreamingTokenizer.reset that leaves the carry buffer in place
tokenizerReset_KeepsBuffer(t) ==
    [t EXCEPT !.position = createInitialState.position,
              !.inString = createInitialState.inString,
              !.stringQuote = createInitialState.stringQuote,
              !.tokens = <<>>, !.expectingKey = FALSE]

\* StreamingTokenizer.reset
tokenizerReset(t) ==
    [t EXCEPT !.buffer = createInitialState.buffer,
              !.position = createInitialState.position,
              !.inString = createInitialState.inString,
              !.stringQuote = createInitialState.stringQuote,
              !.tokens = <<>>, !.expectingKey = FALSE]

setExpectingKey(t, expecting) == [t EXCEPT !.expectingKey = expecting]

pushToken(t, type, value) == [t EXCEPT !.tokens = Append(@, Token(type, value))]

\* the error token, and one character skipped from the current position
pushErrorToken(t, message) ==
    [t EXCEPT !.tokens = Append(@, Token("ERROR", message)), !.position = @ + 1]

getEscapedChar(c) ==
    CASE c = "n" -> "\n"
      [] c = "r" -> "\r"
      [] c = "t" -> "\t"
      [] c = "b" -> "\\b"      \* stands for the backspace character
      [] c = "f" -> "\f"
      [] OTHER -> c            \* \\ / " ' map to themselves, and so does u (no look-ahead)

RECURSIVE unescapeString(_)
unescapeString(str) ==
    IF Len(str) = 0 THEN <<>>
    ELSE IF str[1] = "\\" /\ Len(str) > 1
         THEN <<getEscapedChar(str[2])>> \o unescapeString(SubSeq(str, 3, Len(str)))
         ELSE <<str[1]>> \o unescapeString(Tail(str))

\* first position >= pos holding no whitespace
RECURSIVE skipWhitespace(_, _)
skipWhitespace(buf, pos) ==
    IF pos < Len(buf) /\ buf[pos + 1] \in WHITESPACE THEN skipWhitespace(buf, pos + 1) ELSE pos

\* the loop of processString from position i: the closing quote found or the buffer exhausted
RECURSIVE ScanString(_, _, _, _, _)
ScanString(buf, i, quote, value, escaped) ==
    IF i >= Len(buf) THEN [done |-> FALSE]
    ELSE LET c == buf[i + 1] IN
         IF escaped THEN ScanString(buf, i + 1, quote, Append(value, getEscapedChar(c)), FALSE)
         ELSE IF c = "\\" THEN ScanString(buf, i + 1, quote, value, TRUE)
         ELSE IF c = quote THEN [done |-> TRUE, value |-> value, next |-> i + 1]
         ELSE ScanString(buf, i + 1, quote, Append(value, c), FALSE)

\* processString that keeps the position it reached when the closing quote is missing
processString_KeepsPosition(t, quote) ==
    LET tokenType == IF t.expectingKey THEN "KEY" ELSE "STRING"
        Scanned(r) ==
            IF r.done
            THEN [t |-> [pushToken([t EXCEPT !.position = r.next], tokenType, Str(r.value))
                           EXCEPT !.expectingKey = IF tokenType = "KEY" THEN FALSE ELSE @],
                  processed |-> TRUE]
            ELSE [t |-> [t EXCEPT !.position = Len(t.buffer), !.inString = TRUE,
                                  !.stringQuote = quote],
                  processed |-> FALSE]
    IN  Scanned(ScanString(t.buffer, t.position + 1, quote, <<>>, FALSE))

processString(t, quote) ==
    LET startPos == t.position
        tokenType == IF t.expectingKey THEN "KEY" ELSE "STRING"
        Scanned(r) ==
            IF r.done
            THEN [t |-> [pushToken([t EXCEPT !.position = r.next], tokenType, Str(r.value))
                           EXCEPT !.expectingKey = IF tokenType = "KEY" THEN FALSE ELSE @],
                  processed |-> TRUE]
            ELSE [t |-> [t EXCEPT !.position = startPos, !.inString = TRUE, !.stringQuote = quote],
                  processed |-> FALSE]
    IN  Scanned(ScanString(t.buffer, startPos + 1, quote, <<>>, FALSE))

\* first position >= pos whose character is not in `class`
RECURSIVE ScanWhile(_, _, _)
ScanWhile(buf, pos, class) ==
    IF pos < Len(buf) /\ buf[pos + 1] \in class THEN ScanWhile(buf, pos + 1, class) ELSE pos

RECURSIVE DecimalValue(_)
DecimalValue(ds) ==
    IF Len(ds) = 0 THEN 0
    ELSE 10 * DecimalValue(SubSeq(ds, 1, Len(ds) - 1)) + DigitValue(ds[Len(ds)])

\* parseFloat(raw) for raw made of '-' and digits: an optional sign and the longest
\* run of digits after it, NaN when that run is empty
parseFloat(raw) ==
    LET neg == Len(raw) > 0 /\ raw[1] = "-"
        Magnitude(rest, n) ==
            IF n = 0 THEN NaN
            ELSE Num(IF neg THEN 0 - DecimalValue(SubSeq(rest, 1, n))
                     ELSE DecimalValue(SubSeq(rest, 1, n)))
        Unsigned(rest) == Magnitude(rest, ScanWhile(rest, 0, Digits))
    IN  Unsigned(IF neg THEN Tail(raw) ELSE raw)

\* processNumber that emits a number that ends with the buffer
processNumber_EmitsAtBufferEnd(t) ==
    LET startPos == t.position
        Parsed(moved, value) ==
            IF value = NaN THEN [t |-> pushErrorToken(moved, "Invalid number"), processed |-> TRUE]
            ELSE [t |-> pushToken(moved, "NUMBER", value), processed |-> TRUE]
        Scanned(endPos, raw) ==
            IF Len(raw) > 0 /\ raw[Len(raw)] \in NumberTail THEN [t |-> t, processed |-> FALSE]
            ELSE Parsed([t EXCEPT !.position = endPos], parseFloat(raw))
        Upto(endPos) == Scanned(endPos, SubSeq(t.buffer, startPos + 1, endPos))
    IN  Upto(ScanWhile(t.buffer, startPos, NUMBER_CHAR))

processNumber(t) ==
    LET startPos == t.position
        Parsed(moved, value) ==
            IF value = NaN THEN [t |-> pushErrorToken(moved, "Invalid number"), processed |-> TRUE]
            ELSE [t |-> pushToken(moved, "NUMBER", value), processed |-> TRUE]
        Scanned(endPos, raw) ==
            IF endPos >= Len(t.buffer) THEN [t |-> t, processed |-> FALSE]
            ELSE IF Len(raw) > 0 /\ raw[Len(raw)] \in NumberTail THEN [t |-> t, processed |-> FALSE]
            ELSE Parsed([t EXCEPT !.position = endPos], parseFloat(raw))
        Upto(endPos) == Scanned(endPos, SubSeq(t.buffer, startPos + 1, endPos))
    IN  Upto(ScanWhile(t.buffer, startPos, NUMBER_CHAR))

processUnquotedKey(t) ==
    LET startPos == t.position
        Scanned(endPos, key) ==
            LET atEnd == endPos >= Len(t.buffer)
                emitted == [pushToken([t EXCEPT !.position = endPos], "KEY", Str(key))
                              EXCEPT !.expectingKey = FALSE]
            IN  IF Len(key) > 0
                THEN IF atEnd \/ t.buffer[endPos + 1] = ":" \/ t.buffer[endPos + 1] \in WHITESPACE
                     THEN [t |-> emitted, processed |-> TRUE]
                     ELSE IF endPos >= Len(t.buffer)
                          THEN [t |-> t, processed |-> FALSE]
                          ELSE [t |-> emitted, processed |-> TRUE]
                ELSE [t |-> t, processed |-> FALSE]
        Upto(endPos) == Scanned(endPos, SubSeq(t.buffer, startPos + 1, endPos))
    IN  Upto(ScanWhile(t.buffer, startPos, UNQUOTED_KEY_CHAR))

Keywords == <<[text |-> <<"t", "r", "u", "e">>, type |-> "BOOLEAN", value |-> Bool(TRUE)],
              [text |-> <<"f", "a", "l", "s", "e">>, type |-> "BOOLEAN", value |-> Bool(FALSE)],
              [text |-> <<"n", "u", "l", "l">>, type |-> "NULL", value |-> Null]>>

processKeyword(t) ==
    LET rest == Slice(t.buffer, t.position)
        \* a keyword at the position that is not followed by a word character
        Complete(i) == /\ StartsWith(rest, Keywords[i].text)
                       /\ ~(Len(rest) > Len(Keywords[i].text)
                            /\ rest[Len(Keywords[i].text) + 1] \in WordChar)
        Partial(i) == StartsWith(Keywords[i].text, rest) /\ Len(rest) < Len(Keywords[i].text)
    IN  IF \E i \in 1..3 : Complete(i)
        THEN LET i == CHOOSE i \in 1..3 : Complete(i) IN
             [t |-> pushToken([t EXCEPT !.position = @ + Len(Keywords[i].text)],
                              Keywords[i].type, Keywords[i].value),
              processed |-> TRUE]
        ELSE IF t.position + 4 >= Len(t.buffer) /\ \E i \in 1..3 : Partial(i)
        THEN [t |-> t, processed |-> FALSE]
        ELSE IF TokOpts.allowUnquotedKeys /\ t.expectingKey
        THEN processUnquotedKey(t)
        ELSE [t |-> pushErrorToken(t, "Invalid keyword"), processed |-> TRUE]

\* a structural character: the token, one character consumed, the hint updated
Structural(t, type, hint) ==
    [t |-> [pushToken([t EXCEPT !.position = @ + 1], type, Null)
              EXCEPT !.expectingKey = hint],
     processed |-> TRUE]

\* the token at the position of t, which holds no whitespace
TokenAt(t) ==
    IF t.position >= Len(t.buffer) THEN [t |-> t, processed |-> FALSE]
    ELSE LET char == t.buffer[t.position + 1] IN
      CASE char = "{" -> Structural(t, "OBJECT_START", TRUE)
        [] char = "}" -> Structural(t, "OBJECT_END", FALSE)
        [] char = "[" -> Structural(t, "ARRAY_START", FALSE)
        [] char = "]" -> Structural(t, "ARRAY_END", FALSE)
        [] char = ":" -> Structural(t, "COLON", FALSE)
        [] char = "," -> Structural(t, "COMMA", t.expectingKey)
        [] char = "\"" -> processString(t, char)
        [] char = "'" -> IF ~TokOpts.allowSingleQuotes
                         THEN [t |-> pushErrorToken(t, "Unexpected character"), processed |-> TRUE]
                         ELSE processString(t, char)
        [] OTHER ->
             IF char \in NUMBER_START THEN processNumber(t)
             ELSE IF char \in {"t", "f", "n"} THEN processKeyword(t)
             ELSE IF TokOpts.allowUnquotedKeys /\ t.expectingKey /\ char \in UNQUOTED_KEY_CHAR
             THEN processUnquotedKey(t)
             ELSE IF TokOpts.llmMode
             THEN [t |-> [t EXCEPT !.position = @ + 1], processed |-> TRUE]
             ELSE [t |-> pushErrorToken(t, "Unexpected character"), processed |-> TRUE]

processNextToken(t) ==
    TokenAt([t EXCEPT !.position = skipWhitespace(t.buffer, t.position)])

\* the while loop of StreamingTokenizer.feed
RECURSIVE TokenLoop(_)
TokenLoop(t) ==
    IF t.position < Len(t.buffer)
    THEN LET Continue(r) == IF r.processed THEN TokenLoop(r.t) ELSE r.t
         IN  Continue(processNextToken(t))
    ELSE t

\* StreamingTokenizer.feed: the tokens are in the tokens field of the result
TokenizerFeed(t, chunk) ==
    LET Compact(looped) ==
            IF looped.position > 0
            THEN [looped EXCEPT !.buffer = Slice(@, looped.position), !.position = 0]
            ELSE looped
    IN  Compact(TokenLoop([t EXCEPT !.buffer = @ \o chunk, !.tokens = <<>>]))

ToLower(c) ==
    CASE c = "T" -> "t" [] c = "R" -> "r" [] c = "U" -> "u" [] c = "E" -> "e"
      [] c = "F" -> "f" [] c = "A" -> "a" [] c = "L" -> "l" [] c = "S" -> "s"
      [] c = "N" -> "n" [] OTHER -> c

\* /^(t(r(u(e)?)?)?|f(a(l(s(e)?)?)?)?|n(u(l(l)?)?)?)$/i
PartialKeywordPattern(remaining) ==
    LET low == [i \in 1..Len(remaining) |-> ToLower(remaining[i])] IN
    /\ Len(low) > 0
    /\ \E i \in 1..3 : StartsWith(Keywords[i].text, low)

getPartialToken(t) ==
    LET Partial(remaining) ==
            LET startsWithQuote == \/ StartsWith(remaining, <<"\"">>)
                                   \/ (TokOpts.allowSingleQuotes /\ StartsWith(remaining, <<"'">>))
                content == IF startsWithQuote THEN Tail(remaining) ELSE remaining
            IN  IF Len(remaining) = 0 THEN NoToken
                ELSE IF t.inString \/ startsWithQuote
                THEN Token(IF t.expectingKey THEN "PARTIAL_KEY" ELSE "PARTIAL_STRING",
                           Str(unescapeString(content)))
                ELSE IF remaining[1] \in NUMBER_START THEN Token("PARTIAL_NUMBER", Str(remaining))
                ELSE IF PartialKeywordPattern(remaining) THEN Token("PARTIAL_STRING", Str(remaining))
                ELSE IF /\ TokOpts.allowUnquotedKeys /\ t.expectingKey
                        /\ remaining[1] \in UNQUOTED_KEY_CHAR
                THEN Token("PARTIAL_KEY", Str(remaining))
                ELSE NoToken
    IN  Partial(Trim(t.buffer))

-----------------------------------------------------------------------------
(* SchemaValidator.  A schema is a record holding the keywords it states:      *)
(*   type |-> [one |-> t] or [list |-> <<t, ...>>]                             *)
(*   properties |-> <<[key, schema], ...>>, required |-> <<key, ...>>          *)
(*   items |-> [one |-> schema] or [list |-> <<schema, ...>>]                  *)
(*   additionalItems, additionalProperties |-> [bool |-> b] or [schema |-> s]  *)
(*   ref |-> [pointer |-> "#/$defs/" | "#/definitions/" | other, name |-> n]   *)
(*   defs, definitions |-> <<[key, schema], ...>>                              *)
(* and the numeric keywords as integers.  The keywords decided by a regular    *)
(* expression (pattern, format, patternProperties) are not part of the schemas *)
(* considered.                                                                 *)

Has(schema, keyword) == keyword \in DOMAIN schema

RootSchema == options.schema

Flatten(ss) ==
    LET F[i \in 0..Len(ss)] == IF i = 0 THEN <<>> ELSE F[i - 1] \o ss[i] IN F[Len(ss)]

\* properties[key], a lookup in a list of [key, schema]
Lookup(entries, key) ==
    IF \E i \in 1..Len(entries) : entries[i].key = key
    THEN [found |-> TRUE,
          schema |-> entries[CHOOSE i \in 1..Len(entries) : entries[i].key = key].schema]
    ELSE [found |-> FALSE]

\* the constructor's definitions table: {...schema.$defs, ...schema.definitions}
Definitions ==
    (IF Has(RootSchema, "definitions") THEN RootSchema.definitions ELSE <<>>)
    \o (IF Has(RootSchema, "defs") THEN RootSchema.defs ELSE <<>>)

RECURSIVE resolveRef(_)
resolveRef(schema) ==
    IF ~Has(schema, "ref") THEN schema
    ELSE IF schema.ref.pointer \in {"#/$defs/", "#/definitions/"}
            /\ Lookup(Definitions, schema.ref.name).found
         THEN resolveRef(Lookup(Definitions, schema.ref.name).schema)
         ELSE schema

\* parseInt(segment, 10): an optional sign and the leading digits, NaN without digits
parseInt(segment) ==
    LET Magnitude(rest, n, negative) ==
            IF n = 0 THEN NaN
            ELSE Num(IF negative THEN 0 - DecimalValue(SubSeq(rest, 1, n))
                     ELSE DecimalValue(SubSeq(rest, 1, n)))
        Unsigned(rest, negative) == Magnitude(rest, ScanWhile(rest, 0, Digits), negative)
        Signed(body) ==
            IF Len(body) > 0 /\ body[1] \in {"-", "+"}
            THEN Unsigned(Tail(body), body[1] = "-")
            ELSE Unsigned(body, FALSE)
    IN  Signed(TrimStart(segment))

NoSchema == [k |-> "undefined"]
Found(schema) == [k |-> "schema", schema |-> schema]

\* one hop of getSchemaAtPath, from the resolved schema `current` along `segment`
SchemaStep(current, segment) ==
    IF Has(current, "properties") /\ Lookup(current.properties, segment).found
    THEN Found(Lookup(current.properties, segment).schema)
    ELSE IF Has(current, "additionalProperties") /\ Has(current.additionalProperties, "schema")
    THEN Found(current.additionalProperties.schema)
    ELSE IF Has(current, "items")
    THEN IF Has(current.items, "list")
         THEN LET At(index) ==
                      IF index.k # "NaN" /\ index.v >= 0 /\ index.v < Len(current.items.list)
                      THEN Found(current.items.list[index.v + 1])
                      ELSE IF /\ Has(current, "additionalItems")
                              /\ Has(current.additionalItems, "schema")
                      THEN Found(current.additionalItems.schema)
                      ELSE NoSchema
              IN  At(parseInt(segment))
         ELSE Found(current.items.one)
    ELSE NoSchema

RECURSIVE SchemaWalk(_, _)
SchemaWalk(current, path) ==
    IF Len(path) = 0 THEN Found(resolveRef(current))
    ELSE LET Hop(next) ==
                 IF next.k = "undefined" THEN NoSchema ELSE SchemaWalk(next.schema, Tail(path))
         IN  Hop(SchemaStep(resolveRef(current), Head(path)))

getSchemaAtPath(path) == SchemaWalk(RootSchema, path)

canBeType(type, path) ==
    LET Allows(resolved) ==
            IF ~Has(resolved, "type")
            THEN IF Has(resolved, "properties") \/ Has(resolved, "required") THEN type = "object"
                 ELSE IF Has(resolved, "items") THEN type = "array"
                 ELSE TRUE
            ELSE IF Has(resolved.type, "list")
            THEN \E i \in 1..Len(resolved.type.list) : resolved.type.list[i] = type
            ELSE IF resolved.type.one = "integer" /\ type = "number" THEN TRUE
            ELSE resolved.type.one = type
        At(subSchema) ==
            IF subSchema.k = "undefined" THEN TRUE ELSE Allows(resolveRef(subSchema.schema))
    IN  At(getSchemaAtPath(path))

getJSONType(value) == value.k

createError(ctx, keyword, text, arg) ==
    [path |-> ctx.path, keyword |-> keyword, message |-> [text |-> text, arg |-> arg]]

RECURSIVE deepEqual(_, _)
deepEqual(a, b) ==
    IF a.k # b.k THEN FALSE
    ELSE IF a.k = "array"
    THEN Len(a.v) = Len(b.v) /\ \A i \in 1..Len(a.v) : deepEqual(a.v[i], b.v[i])
    ELSE IF a.k = "object"
    THEN /\ Len(a.v) = Len(b.v)
         /\ \A i \in 1..Len(a.v) :
                HasKey(b, a.v[i].key) /\ deepEqual(a.v[i].value, ObjGet(b, a.v[i].key))
    ELSE a = b

validateType(value, type, ctx) ==
    LET types == IF Has(type, "list") THEN type.list ELSE <<type.one>>
        actualType == getJSONType(value)
    IN  IF \E i \in 1..Len(types) :
               \/ types[i] = actualType
               \/ (types[i] = "integer" /\ actualType = "number")   \* every number here is an integer
        THEN <<>>
        ELSE <<createError(ctx, "type", "Expected type", <<>>)>>

validateString(value, schema, ctx) ==
    (IF Has(schema, "minLength") /\ Len(value.v) < schema.minLength
     THEN <<createError(ctx, "minLength", "String too short", <<>>)>> ELSE <<>>)
    \o (IF Has(schema, "maxLength") /\ Len(value.v) > schema.maxLength
        THEN <<createError(ctx, "maxLength", "String too long", <<>>)>> ELSE <<>>)

validateNumber(value, schema, ctx) ==
    (IF Has(schema, "minimum") /\ value.v < schema.minimum
     THEN <<createError(ctx, "minimum", "Value too small", <<>>)>> ELSE <<>>)
    \o (IF Has(schema, "maximum") /\ value.v > schema.maximum
        THEN <<createError(ctx, "maximum", "Value too large", <<>>)>> ELSE <<>>)
    \o (IF Has(schema, "exclusiveMinimum") /\ value.v <= schema.exclusiveMinimum
        THEN <<createError(ctx, "exclusiveMinimum", "Value too small", <<>>)>> ELSE <<>>)
    \o (IF Has(schema, "exclusiveMaximum") /\ value.v >= schema.exclusiveMaximum
        THEN <<createError(ctx, "exclusiveMaximum", "Value too large", <<>>)>> ELSE <<>>)
    \o (IF Has(schema, "multipleOf") /\ value.v % schema.multipleOf # 0
        THEN <<createError(ctx, "multipleOf", "Value not a multiple", <<>>)>> ELSE <<>>)

RECURSIVE validateValue(_, _)
RECURSIVE validateArray(_, _, _)
RECURSIVE validateObject(_, _, _)

validateArray(value, schema, ctx) ==
    LET n == Len(value.v)
        Sub(i, itemSchema) == validateValue(value.v[i], [path |-> Append(ctx.path, ToDecimal(i - 1)),
                                                          schema |-> itemSchema])
        \* the tuple branch for the element at 1-based index i
        TupleItem(i) ==
            IF i <= Len(schema.items.list) THEN Sub(i, schema.items.list[i])
            ELSE IF Has(schema, "additionalItems") /\ Has(schema.additionalItems, "schema")
            THEN Sub(i, schema.additionalItems.schema)
            ELSE IF Has(schema, "additionalItems") /\ Has(schema.additionalItems, "bool")
                    /\ schema.additionalItems.bool = FALSE /\ i - 1 >= Len(schema.items.list)
            THEN <<createError(ctx, "additionalItems", "No additional items allowed", ToDecimal(i - 1))>>
            ELSE <<>>
    IN  (IF Has(schema, "minItems") /\ n < schema.minItems
         THEN <<createError(ctx, "minItems", "Array too short", <<>>)>> ELSE <<>>)
        \o (IF Has(schema, "maxItems") /\ n > schema.maxItems
            THEN <<createError(ctx, "maxItems", "Array too long", <<>>)>> ELSE <<>>)
        \o (IF Has(schema, "uniqueItems") /\ schema.uniqueItems
               /\ Cardinality({value.v[i] : i \in 1..n}) # n
            THEN <<createError(ctx, "uniqueItems", "Array items must be unique", <<>>)>> ELSE <<>>)
        \o (IF Has(schema, "items")
            THEN IF Has(schema.items, "list")
                 THEN Flatten([i \in 1..n |-> TupleItem(i)])
                 ELSE Flatten([i \in 1..n |-> Sub(i, schema.items.one)])
            ELSE <<>>)
        \o (IF Has(schema, "contains")
               /\ ~\E i \in 1..n : validateValue(value.v[i], [ctx EXCEPT !.schema = schema.contains]) = <<>>
            THEN <<createError(ctx, "contains", "Array must contain a matching item", <<>>)>> ELSE <<>>)

validateObject(value, schema, ctx) ==
    LET keys == [i \in 1..Len(value.v) |-> value.v[i].key]
        required == IF Has(schema, "required") THEN schema.required ELSE <<>>
        properties == IF Has(schema, "properties") THEN schema.properties ELSE <<>>
        validatedKeys == {properties[i].key : i \in {j \in 1..Len(properties) : HasKey(value, properties[j].key)}}
        Sub(key, propSchema) == validateValue(ObjGet(value, key), [path |-> Append(ctx.path, key),
                                                                   schema |-> propSchema])
        Additional(i) ==
            IF keys[i] \in validatedKeys THEN <<>>
            ELSE IF Has(schema, "additionalProperties") /\ Has(schema.additionalProperties, "bool")
                    /\ schema.additionalProperties.bool = FALSE
            THEN <<createError(ctx, "additionalProperties", "Additional property not allowed", keys[i])>>
            ELSE IF Has(schema, "additionalProperties") /\ Has(schema.additionalProperties, "schema")
            THEN Sub(keys[i], schema.additionalProperties.schema)
            ELSE <<>>
    IN  (IF Has(schema, "minProperties") /\ Len(keys) < schema.minProperties
         THEN <<createError(ctx, "minProperties", "Too few properties", <<>>)>> ELSE <<>>)
        \o (IF Has(schema, "maxProperties") /\ Len(keys) > schema.maxProperties
            THEN <<createError(ctx, "maxProperties", "Too many properties", <<>>)>> ELSE <<>>)
        \o Flatten([i \in 1..Len(required) |->
                       IF ~HasKey(value, required[i])
                       THEN <<createError(ctx, "required", "Missing required property", required[i])>>
                       ELSE <<>>])
        \o Flatten([i \in 1..Len(properties) |->
                       IF HasKey(value, properties[i].key)
                       THEN Sub(properties[i].key, properties[i].schema) ELSE <<>>])
        \o Flatten([i \in 1..Len(keys) |-> Additional(i)])
        \o (IF Has(schema, "propertyNames")
            THEN Flatten([i \in 1..Len(keys) |->
                     IF validateValue(Str(keys[i]), [ctx EXCEPT !.schema = schema.propertyNames]) # <<>>
                     THEN <<createError(ctx, "propertyNames", "Invalid property name", keys[i])>>
                     ELSE <<>>])
            ELSE <<>>)

validateValue(value, ctx) ==
    LET schema == resolveRef(ctx.schema)
        With(sub) == validateValue(value, [ctx EXCEPT !.schema = sub])
        typeErrors == IF Has(schema, "type") THEN validateType(value, schema.type, ctx) ELSE <<>>
        ifValid == With(schema.if) = <<>>
    IN  IF typeErrors # <<>> THEN typeErrors      \* earlyReject is true by default
        ELSE
        (IF Has(schema, "const") /\ ~deepEqual(value, schema.const)
         THEN <<createError(ctx, "const", "Value must equal const", <<>>)>> ELSE <<>>)
        \o (IF Has(schema, "enum") /\ ~\E i \in 1..Len(schema.enum) : deepEqual(value, schema.enum[i])
            THEN <<createError(ctx, "enum", "Value must be one of enum", <<>>)>> ELSE <<>>)
        \o (CASE value.k = "string" -> validateString(value, schema, ctx)
              [] value.k = "number" -> validateNumber(value, schema, ctx)
              [] value.k = "array" -> validateArray(value, schema, ctx)
              [] value.k = "object" -> validateObject(value, schema, ctx)
              [] OTHER -> <<>>)
        \o (IF Has(schema, "allOf")
            THEN Flatten([i \in 1..Len(schema.allOf) |-> With(schema.allOf[i])]) ELSE <<>>)
        \o (IF Has(schema, "anyOf") /\ ~\E i \in 1..Len(schema.anyOf) : With(schema.anyOf[i]) = <<>>
            THEN <<createError(ctx, "anyOf", "Value must match a schema in anyOf", <<>>)>> ELSE <<>>)
        \o (IF Has(schema, "oneOf")
               /\ Cardinality({i \in 1..Len(schema.oneOf) : With(schema.oneOf[i]) = <<>>}) # 1
            THEN <<createError(ctx, "oneOf", "Value must match exactly one schema in oneOf", <<>>)>>
            ELSE <<>>)
        \o (IF Has(schema, "not") /\ With(schema.not) = <<>>
            THEN <<createError(ctx, "not", "Value must not match schema in not", <<>>)>> ELSE <<>>)
        \o (IF Has(schema, "if")
            THEN IF ifValid /\ Has(schema, "then") THEN With(schema.then)
                 ELSE IF ~ifValid /\ Has(schema, "else") THEN With(schema.else)
                 ELSE <<>>
            ELSE <<>>)

\* SchemaValidator.validate
validate(value, path) ==
    LET Against(schemaAtPath) ==
            IF schemaAtPath.k = "undefined" THEN <<>>
            ELSE validateValue(value, [path |-> path, schema |-> schemaAtPath.schema])
    IN  Against(IF Len(path) > 0 THEN getSchemaAtPath(path) ELSE Found(RootSchema))

-----------------------------------------------------------------------------
(* StreamingJSONParser.  The operators below work on a record p of the parser's  *)
(* fields; p.thrown says that an Error was thrown and is unwinding the feed.     *)

NoKey == <<"undefined">>                      \* frame.currentKey === undefined
Truthy(key) == key # NoKey /\ key # <<>>      \* if (frame.currentKey): '' is falsy too

Scalars == {"STRING", "NUMBER", "BOOLEAN", "NULL"}

NewFrame(type) ==
    [type |-> type, data |-> IF type = "object" THEN Obj(<<>>) ELSE Arr(<<>>),
     currentKey |-> NoKey, completedKeys |-> {}, arrayIndex |-> 0]

HasFrame(p) == Len(p.stack) > 0
currentFrame(p) == p.stack[Len(p.stack)]

getCurrentPath(stk, includeCurrentKey) ==
    Flatten([i \in 1..Len(stk) |->
        IF stk[i].type = "object" /\ Truthy(stk[i].currentKey)
        THEN IF i # Len(stk) \/ includeCurrentKey THEN <<stk[i].currentKey>> ELSE <<>>
        ELSE IF stk[i].type = "array" THEN <<ToDecimal(stk[i].arrayIndex)>>
        ELSE <<>>])

Emit(p, event) == [p EXCEPT !.events = Append(@, event)]

\* setError that throws in lenient mode too
setError_AlwaysThrows(p, message) ==
    [Emit(p, [e |-> "onError", message |-> message]) EXCEPT !.state = "ERROR", !.thrown = TRUE]

\* setError that also forgets the completed paths
setError_ClearsCompleted(p, message) ==
    [Emit(p, [e |-> "onError", message |-> message])
       EXCEPT !.state = "ERROR", !.thrown = ~options.llmMode, !.completedPaths = {}]

setError(p, message) ==
    [Emit(p, [e |-> "onError", message |-> message])
       EXCEPT !.state = "ERROR", !.thrown = ~options.llmMode]

\* this.state = s as the statement after a call that may have thrown
SetState(p, s) == IF p.thrown THEN p ELSE [p EXCEPT !.state = s]

emitComplete(p) == Emit(p, [e |-> "onComplete", data |-> p.result])

RECURSIVE EmitAll(_, _)
EmitAll(p, errs) ==
    IF Len(errs) = 0 THEN p
    ELSE EmitAll(Emit([p EXCEPT !.errors = Append(@, Head(errs))],
                      [e |-> "onValidationError", error |-> Head(errs)]),
                 Tail(errs))

\* validateValue that makes a validation error fatal
validateValueP_IsFatal(p, value, path) ==
    IF ~p.validator THEN p
    ELSE LET Then(errs) ==
                 IF errs = <<>> THEN p ELSE setError(EmitAll(p, errs), "Validation failed")
         IN  Then(validate(value, path))

validateValueP(p, value, path) ==
    IF ~p.validator THEN p ELSE EmitAll(p, validate(value, path))

\* StartContainer whose depth guard is off by one
StartContainer_OffByOne(p, type) ==
    IF Len(p.stack) > MaxDepthOption THEN setError(p, "Maximum depth exceeded")
    ELSE LET At(path) ==
                 [(IF p.validator /\ ~canBeType(type, path)
                   THEN EmitAll(p, <<[path |-> path, keyword |-> "type",
                                      message |-> [text |-> "Expected different type",
                                                   arg |-> <<>>]]>>)
                   ELSE p)
                    EXCEPT !.stack = Append(@, NewFrame(type)),
                           !.pendingPaths = @ \cup {Join(path)}]
         IN  At(getCurrentPath(p.stack, FALSE))

\* startObject and startArray differ in the container type only
StartContainer(p, type) ==
    IF Len(p.stack) >= MaxDepthOption THEN setError(p, "Maximum depth exceeded")
    ELSE LET At(path) ==
                 [(IF p.validator /\ ~canBeType(type, path)
                   THEN EmitAll(p, <<[path |-> path, keyword |-> "type",
                                      message |-> [text |-> "Expected different type",
                                                   arg |-> <<>>]]>>)
                   ELSE p)
                    EXCEPT !.stack = Append(@, NewFrame(type)),
                           !.pendingPaths = @ \cup {Join(path)}]
         IN  At(getCurrentPath(p.stack, FALSE))

startObject(p) == StartContainer(p, "object")

startArray(p) == StartContainer(p, "array")

assignValue(p, value) ==
    IF ~HasFrame(p) THEN [p EXCEPT !.result = value]
    ELSE LET top == Len(p.stack)
             frame == p.stack[top]
         IN  IF frame.type = "object"
             THEN IF ~Truthy(frame.currentKey) THEN setError(p, "No current key for value")
                  ELSE LET path == Append(getCurrentPath(p.stack, FALSE), frame.currentKey)
                           Completed(assigned) ==
                               [Emit(assigned,
                                     [e |-> "onCompleteField", field |-> frame.currentKey,
                                      value |-> value,
                                      path |-> getCurrentPath(assigned.stack, FALSE)])
                                  EXCEPT !.stack[top].currentKey = NoKey]
                       IN  Completed([p EXCEPT
                               !.stack[top].data = ObjSet(@, frame.currentKey, value),
                               !.stack[top].completedKeys = @ \cup {frame.currentKey},
                               !.completedPaths = @ \cup {Join(path)}])
             ELSE [p EXCEPT !.stack[top].data = Arr(Append(@.v, value)),
                            !.stack[top].arrayIndex = @ + 1]

\* EndContainer that completes the parse at every close
EndContainer_CompletesAtEveryClose(p, type) ==
    IF ~HasFrame(p) THEN setError(p, "Mismatched close")
    ELSE LET frame == currentFrame(p)
             popped == [p EXCEPT !.stack = SubSeq(@, 1, Len(@) - 1)]
             Assigned(assigned) ==
                 IF assigned.thrown THEN assigned
                 ELSE emitComplete([assigned EXCEPT !.state = "COMPLETE"])
             Validated(validated, path) ==
                 Assigned(assignValue(
                     IF type = "object"
                     THEN Emit(validated, [e |-> "onPartialObject", data |-> frame.data,
                                           path |-> path])
                     ELSE validated,
                     frame.data))
             Marked(path, pathStr) ==
                 Validated(validateValueP([popped EXCEPT !.completedPaths = @ \cup {pathStr},
                                                         !.pendingPaths = @ \ {pathStr}],
                                          frame.data, path),
                           path)
             At(path) == Marked(path, Join(path))
         IN  IF frame.type # type THEN setError(popped, "Mismatched close")
             ELSE At(getCurrentPath(popped.stack, FALSE))

\* endObject and endArray: endObject alone emits onPartialObject
EndContainer(p, type) ==
    IF ~HasFrame(p) THEN setError(p, "Mismatched close")
    ELSE LET frame == currentFrame(p)
             popped == [p EXCEPT !.stack = SubSeq(@, 1, Len(@) - 1)]
             Assigned(assigned) ==
                 IF assigned.thrown THEN assigned
                 ELSE IF Len(assigned.stack) = 0
                 THEN emitComplete([assigned EXCEPT !.state = "COMPLETE"])
                 ELSE [assigned EXCEPT !.state = "EXPECTING_COMMA_OR_END"]
             Validated(validated, path) ==
                 Assigned(assignValue(
                     IF type = "object"
                     THEN Emit(validated, [e |-> "onPartialObject", data |-> frame.data,
                                           path |-> path])
                     ELSE validated,
                     frame.data))
             Marked(path, pathStr) ==
                 Validated(validateValueP([popped EXCEPT !.completedPaths = @ \cup {pathStr},
                                                         !.pendingPaths = @ \ {pathStr}],
                                          frame.data, path),
                           path)
             At(path) == Marked(path, Join(path))
         IN  IF frame.type # type THEN setError(popped, "Mismatched close")
             ELSE At(getCurrentPath(popped.stack, FALSE))

endObject(p) == EndContainer(p, "object")

endArray(p) == EndContainer(p, "array")

pushArrayValue(p, value) ==
    IF ~HasFrame(p) \/ currentFrame(p).type # "array" THEN setError(p, "Not in array")
    ELSE LET top == Len(p.stack)
             frame == p.stack[top]
             Marked(path, pathStr) ==
                 [validateValueP([p EXCEPT !.stack[top].data = Arr(Append(@.v, value)),
                                           !.completedPaths = @ \cup {pathStr},
                                           !.pendingPaths = @ \ {pathStr}],
                                 value, path)
                    EXCEPT !.stack[top].arrayIndex = @ + 1]
             At(path) == Marked(path, Join(path))
         IN  At(Append(getCurrentPath(p.stack, FALSE), ToDecimal(frame.arrayIndex)))

setValue(p, value) ==
    IF ~HasFrame(p) THEN validateValueP([p EXCEPT !.result = value], value, <<>>)
    ELSE LET top == Len(p.stack)
             frame == p.stack[top]
         IN  IF frame.type = "object"
             THEN IF ~Truthy(frame.currentKey) THEN setError(p, "No current key for value")
                  ELSE LET Validated(validated) ==
                               [Emit(validated,
                                     [e |-> "onCompleteField", field |-> frame.currentKey,
                                      value |-> value,
                                      path |-> getCurrentPath(validated.stack, FALSE)])
                                  EXCEPT !.stack[top].currentKey = NoKey]
                           Marked(path, pathStr) ==
                               Validated(validateValueP(
                                   [p EXCEPT
                                      !.stack[top].data = ObjSet(@, frame.currentKey, value),
                                      !.stack[top].completedKeys = @ \cup {frame.currentKey},
                                      !.completedPaths = @ \cup {pathStr},
                                      !.pendingPaths = @ \ {pathStr}],
                                   value, path))
                           At(path) == Marked(path, Join(path))
                       IN  At(Append(getCurrentPath(p.stack, FALSE), frame.currentKey))
             ELSE pushArrayValue(p, value)

handleInitialState(p, token) ==
    CASE token.type = "OBJECT_START" -> SetState(startObject(p), "EXPECTING_KEY")
      [] token.type = "ARRAY_START" -> SetState(startArray(p), "IN_ARRAY")
      [] token.type \in Scalars ->
           emitComplete([validateValueP([p EXCEPT !.result = token.value], token.value, <<>>)
                           EXCEPT !.state = "COMPLETE"])
      [] OTHER -> setError(p, "Unexpected token at start")

handleObjectState(p, token) ==
    IF ~HasFrame(p) \/ currentFrame(p).type # "object" THEN setError(p, "Invalid state: not in object")
    ELSE CASE token.type \in {"KEY", "STRING"} ->
                LET keyed == [p EXCEPT !.stack[Len(p.stack)].currentKey = token.value.v] IN
                [keyed EXCEPT !.pendingPaths = @ \cup {Join(getCurrentPath(keyed.stack, FALSE))},
                              !.state = "EXPECTING_COLON"]
           [] token.type = "OBJECT_END" -> endObject(p)
           [] token.type = "COMMA" ->
                [p EXCEPT !.state = "EXPECTING_KEY",
                          !.tokenizer = setExpectingKey(@, TRUE)]
           [] OTHER -> setError(p, "Expected key or }")

handleValueState(p, token) ==
    CASE token.type = "OBJECT_START" -> SetState(startObject(p), "EXPECTING_KEY")
      [] token.type = "ARRAY_START" -> SetState(startArray(p), "IN_ARRAY")
      [] token.type \in Scalars -> SetState(setValue(p, token.value), "EXPECTING_COMMA_OR_END")
      [] token.type = "OBJECT_END" ->
           IF options.llmMode /\ HasFrame(p)
           THEN IF currentFrame(p).type = "object" THEN endObject(p) ELSE p
           ELSE setError(p, "Unexpected } when expecting value")
      [] token.type = "ARRAY_END" ->
           IF options.llmMode /\ HasFrame(p)
           THEN IF currentFrame(p).type = "array" THEN endArray(p) ELSE p
           ELSE setError(p, "Unexpected ] when expecting value")
      [] OTHER -> setError(p, "Unexpected token when expecting value")

handleColonState(p, token) ==
    IF token.type = "COLON" THEN [p EXCEPT !.state = "EXPECTING_VALUE"]
    ELSE IF options.llmMode THEN handleValueState([p EXCEPT !.state = "EXPECTING_VALUE"], token)
    ELSE setError(p, "Expected :")

handleArrayState(p, token) ==
    IF ~HasFrame(p) \/ currentFrame(p).type # "array" THEN setError(p, "Invalid state: not in array")
    ELSE CASE token.type = "OBJECT_START" -> SetState(startObject(p), "EXPECTING_KEY")
           [] token.type = "ARRAY_START" -> SetState(startArray(p), "IN_ARRAY")
           [] token.type = "ARRAY_END" -> endArray(p)
           [] token.type \in Scalars ->
                SetState(pushArrayValue(p, token.value), "EXPECTING_COMMA_OR_END")
           [] token.type = "COMMA" ->
                IF options.allowTrailingCommas \/ options.llmMode THEN p
                ELSE setError(p, "Unexpected comma in array")
           [] OTHER -> setError(p, "Unexpected token in array")

\* handleCommaOrEndState that does not take another token for a missing comma
handleCommaOrEndState_NoRecovery(p, token) ==
    IF ~HasFrame(p) THEN emitComplete([p EXCEPT !.state = "COMPLETE"])
    ELSE LET frame == currentFrame(p) IN
      CASE token.type = "COMMA" ->
             IF frame.type = "object"
             THEN [p EXCEPT !.state = "EXPECTING_KEY", !.tokenizer = setExpectingKey(@, TRUE)]
             ELSE [p EXCEPT !.state = "IN_ARRAY"]
        [] token.type = "OBJECT_END" ->
             IF frame.type = "object" THEN endObject(p) ELSE setError(p, "Unexpected } in array")
        [] token.type = "ARRAY_END" ->
             IF frame.type = "array" THEN endArray(p) ELSE setError(p, "Unexpected ] in object")
        [] OTHER -> setError(p, "Expected , or end of container")

handleCommaOrEndState(p, token) ==
    IF ~HasFrame(p) THEN emitComplete([p EXCEPT !.state = "COMPLETE"])
    ELSE LET frame == currentFrame(p) IN
      CASE token.type = "COMMA" ->
             IF frame.type = "object"
             THEN [p EXCEPT !.state = "EXPECTING_KEY", !.tokenizer = setExpectingKey(@, TRUE)]
             ELSE [p EXCEPT !.state = "IN_ARRAY"]
        [] token.type = "OBJECT_END" ->
             IF frame.type = "object" THEN endObject(p) ELSE setError(p, "Unexpected } in array")
        [] token.type = "ARRAY_END" ->
             IF frame.type = "array" THEN endArray(p) ELSE setError(p, "Unexpected ] in object")
        [] OTHER ->
             IF options.llmMode
             THEN IF frame.type = "object"
                  THEN handleObjectState([p EXCEPT !.state = "EXPECTING_KEY"], token)
                  ELSE handleArrayState([p EXCEPT !.state = "IN_ARRAY"], token)
             ELSE setError(p, "Expected , or end of container")

\* handlePartialToken that passes over partial numbers
handlePartialToken_StringsOnly(p, token) ==
    LET path == getCurrentPath(p.stack, FALSE) IN
    IF token.type = "PARTIAL_STRING" /\ HasFrame(p)
    THEN LET frame == currentFrame(p) IN
         IF frame.type = "object" /\ Truthy(frame.currentKey)
         THEN [p EXCEPT !.pendingPaths = @ \cup {Join(Append(path, frame.currentKey))}]
         ELSE IF frame.type = "array"
         THEN [p EXCEPT !.pendingPaths = @ \cup {Join(Append(path, ToDecimal(frame.arrayIndex)))}]
         ELSE p
    ELSE p

handlePartialToken(p, token) ==
    LET path == getCurrentPath(p.stack, FALSE) IN
    IF token.type \in {"PARTIAL_STRING", "PARTIAL_NUMBER"} /\ HasFrame(p)
    THEN LET frame == currentFrame(p) IN
         IF frame.type = "object" /\ Truthy(frame.currentKey)
         THEN [p EXCEPT !.pendingPaths = @ \cup {Join(Append(path, frame.currentKey))}]
         ELSE IF frame.type = "array"
         THEN [p EXCEPT !.pendingPaths = @ \cup {Join(Append(path, ToDecimal(frame.arrayIndex)))}]
         ELSE p
    ELSE p

handleError(p, token) ==
    IF options.llmMode
    THEN [p EXCEPT !.errors = Append(@, [path |-> getCurrentPath(p.stack, FALSE), keyword |-> "syntax",
                                         message |-> [text |-> token.value, arg |-> <<>>]])]
    ELSE setError(p, token.value)

\* called in llmMode only; its processToken call lands in handleCommaOrEndState
tryRecover(p, token) ==
    CASE token.type = "OBJECT_START" -> SetState(startObject(p), "EXPECTING_KEY")
      [] token.type = "ARRAY_START" -> SetState(startArray(p), "IN_ARRAY")
      [] token.type \in {"OBJECT_END", "ARRAY_END"} ->
           IF Len(p.stack) > 0
           THEN handleCommaOrEndState([p EXCEPT !.state = "EXPECTING_COMMA_OR_END"], token)
           ELSE p
      [] OTHER -> p

\* processToken that takes a token after completion as the start of a new value
processToken_RestartsAfterComplete(p, token) ==
    IF token.type = "ERROR" THEN handleError(p, token)
    ELSE CASE p.state \in {"INITIAL", "COMPLETE"} -> handleInitialState(p, token)
           [] p.state \in {"IN_OBJECT", "EXPECTING_KEY"} -> handleObjectState(p, token)
           [] p.state = "EXPECTING_COLON" -> handleColonState(p, token)
           [] p.state = "EXPECTING_VALUE" -> handleValueState(p, token)
           [] p.state = "IN_ARRAY" -> handleArrayState(p, token)
           [] p.state = "EXPECTING_COMMA_OR_END" -> handleCommaOrEndState(p, token)
           [] p.state = "ERROR" -> IF options.llmMode THEN tryRecover(p, token) ELSE p

processToken(p, token) ==
    IF token.type = "ERROR" THEN handleError(p, token)
    ELSE CASE p.state = "INITIAL" -> handleInitialState(p, token)
           [] p.state \in {"IN_OBJECT", "EXPECTING_KEY"} -> handleObjectState(p, token)
           [] p.state = "EXPECTING_COLON" -> handleColonState(p, token)
           [] p.state = "EXPECTING_VALUE" -> handleValueState(p, token)
           [] p.state = "IN_ARRAY" -> handleArrayState(p, token)
           [] p.state = "EXPECTING_COMMA_OR_END" -> handleCommaOrEndState(p, token)
           [] p.state = "COMPLETE" -> p
           [] p.state = "ERROR" -> IF options.llmMode THEN tryRecover(p, token) ELSE p

\* the for loop of feed: a throw leaves the remaining tokens unprocessed
RECURSIVE ProcessTokens(_, _)
ProcessTokens(p, tokens) ==
    IF Len(tokens) = 0 \/ p.thrown THEN p
    ELSE ProcessTokens(processToken(p, Head(tokens)), Tail(tokens))

getCurrentData(p) == IF Len(p.stack) = 0 THEN p.result ELSE p.stack[1].data

buildResult(p) ==
    [complete |-> p.state = "COMPLETE",
     valid |-> Len(p.errors) = 0,
     data |-> getCurrentData(p),
     completedFields |-> p.completedPaths,
     pendingFields |-> p.pendingPaths,
     errors |-> p.errors,
     depth |-> Len(p.stack),
     bytesProcessed |-> p.bytesProcessed]

\* StreamingJSONParser.feed up to its return statement
feed(p, chunk) ==
    LET counted == [p EXCEPT !.bytesProcessed = @ + Len(chunk), !.thrown = FALSE]
        hinted == setExpectingKey(counted.tokenizer,
                      counted.state = "EXPECTING_KEY"
                      \/ (counted.state = "INITIAL" /\ Len(counted.stack) = 0))
        Tokenized(tokenized) == ProcessTokens(tokenized, tokenized.tokenizer.tokens)
        Pending(processed, partialToken) ==
            IF partialToken.type # "NONE" THEN handlePartialToken(processed, partialToken)
            ELSE processed
        Processed(processed) ==
            IF processed.thrown THEN processed
            ELSE Pending(processed, getPartialToken(processed.tokenizer))
    IN  Processed(Tokenized([counted EXCEPT !.tokenizer = TokenizerFeed(hinted, chunk)]))

\* the parser as constructed
NewParser ==
    [state |-> "INITIAL", stack |-> <<>>, result |-> Undefined, errors |-> <<>>,
     bytesProcessed |-> 0, completedPaths |-> {}, pendingPaths |-> {},
     tokenizer |-> NewTokenizer, events |-> <<>>, thrown |-> FALSE,
     validator |-> HasSchema]

\* StreamingJSONParser.reset: the option and event wiring stay
reset(p) ==
    [p EXCEPT !.tokenizer = tokenizerReset(@), !.state = "INITIAL", !.stack = <<>>,
              !.result = Undefined, !.errors = <<>>, !.bytesProcessed = 0,
              !.completedPaths = {}, !.pendingPaths = {}]

\* getResult that raises in state Error only
getResult_RaisesInErrorOnly(p) ==
    IF p.state = "ERROR" THEN [thrown |-> TRUE, message |-> "Parsing is not complete"]
    ELSE [thrown |-> FALSE, value |-> p.result]

\* StreamingJSONParser.getResult (isComplete is state = Complete)
getResult(p) ==
    IF p.state # "COMPLETE" THEN [thrown |-> TRUE, message |-> "Parsing is not complete"]
    ELSE [thrown |-> FALSE, value |-> p.result]

-----------------------------------------------------------------------------
(* The caller: options, documents, and the feed and reset calls *)

MaxChunk == 3        \* a feed passes between 1 and MaxChunk characters
MaxResets == 1       \* reset is called at most this many times
TestMaxDepth == 2    \* the small maxDepth some parsers are constructed with

\* n copies of text
RECURSIVE Repeat(_, _)
Repeat(text, n) == IF n = 0 THEN <<>> ELSE text \o Repeat(text, n - 1)

\* arrays nested n deep around 1, objects nested n deep around 1
NestedArrays(n) == Repeat(<<"[">>, n) \o <<"1">> \o Repeat(<<"]">>, n)
NestedObjects(n) == Repeat(Chars("{\"a\":"), n) \o <<"1">> \o Repeat(<<"}">>, n)

DepthDocs ==
    {NestedArrays(TestMaxDepth), NestedArrays(TestMaxDepth + 1),
     NestedObjects(TestMaxDepth), NestedObjects(TestMaxDepth + 1),
     Repeat(<<"[">>, TestMaxDepth) \o Chars("{\"a\":1}") \o Repeat(<<"]">>, TestMaxDepth),
     Repeat(<<"[">>, TestMaxDepth + 1) \o Chars("2],3") \o Repeat(<<"]">>, TestMaxDepth)}

\* well-formed JSON texts
ValidDocs ==
    {Chars(text) : text \in
       {"{}", "[]", "{\"a\":1}", "{\"a\":\"x\",\"b\":2}", "[1,2]", "[\"a\",true,null]",
        "{\"a\":{\"b\":1}}", "{\"a\":[1,2],\"b\":{}}", "[[1],{\"a\":1}]", "{\"a\":{},\"b\":1}",
        "\"ab\"", "12 ", "123 ", "-7\n", "true", "false", "null", " null ",
        "{\"\":1}", "{\"\":{}}", " { \"a\" : [ 1 , false ] } ", "{\"a\":\"\\u0041\"}",
        "{\"a\":\"q\\\"\\n\"}", "{\"a\":1,\"a\":\"x\"}", "{\"a.b\":1,\"a\":{\"b\":2}}",
        "[{\"a\":1},{\"a\":-20}]", "{\"a\":{\"b\":{\"c\":null}}}", "[\"t\",[]]"}}

\* a text that leaves the parser in each of its states, followed by one lexeme
ProbePrefixes ==
    {Chars(text) : text \in
       {"", "{", "{\"a\"", "{\"a\":", "[", "[1,", "{\"a\":\"x\"", "[\"x\"", "{\"a\":1,", "{}", "[[]"}}
ProbeLexemes ==
    {Chars(text) : text \in
       {"{", "}", "[", "]", ":", ",", "\"s\"", "1 ", "true", "null", "x", "'"}}
ProbeDocs == {prefix \o lexeme : prefix \in ProbePrefixes, lexeme \in ProbeLexemes}

\* malformed texts and texts in the lenient dialect
LenientDocs ==
    {Chars(text) : text \in
       {"{name: \"John\", age: 30,}", "{'a': 'b'}", "{\"a\":1 \"b\":2}", "[1 2]", "{\"a\" 1}",
        "{\"a\":}", "[1,]", "{\"a\":1,}", "{invalid", "{invalid}", "[--1,2]", "{\"a\":tru}",
        "}{\"a\":1}", "[1}]", "{\"a\":[}", "{{}}", "{,}", "{}x", "[1,,2]", "{\"a\":\"x", "[-,1]", "\"ab"}}

\* objects with unquoted keys, each with the same text with its keys quoted
UnquotedCases ==
    {[text |-> Chars(c[1]), quoted |-> Chars(c[2])] : c \in
       {<<"{a:1}", "{\"a\":1}">>, <<"{a:1,}", "{\"a\":1}">>,
        <<"{a:1,b:2}", "{\"a\":1,\"b\":2}">>,
        <<"{a: \"x\", b: 2,}", "{\"a\": \"x\", \"b\": 2}">>}}

\* root-level numbers followed by one whitespace character, with their values
RootNumberCases ==
    {[text |-> Chars("12 "), value |-> 12], [text |-> Chars("123 "), value |-> 123],
     [text |-> Chars("-7\n"), value |-> -7]}

\* texts with one comma left out, each with the same text with the comma in place
MissingCommaCases ==
    {[text |-> Chars(c[1]), full |-> Chars(c[2])] : c \in
       {<<"[1 2]", "[1,2]">>, <<"[\"x\" true]", "[\"x\",true]">>,
        <<"{\"a\":1 \"b\":2}", "{\"a\":1,\"b\":2}">>,
        <<"{\"a\":\"x\" \"b\":2}", "{\"a\":\"x\",\"b\":2}">>,
        <<"{\"a\":{} \"b\":1}", "{\"a\":{},\"b\":1}">>}}

Docs == ValidDocs \cup ProbeDocs \cup LenientDocs \cup {c.text : c \in UnquotedCases}
        \cup {c.text : c \in MissingCommaCases}

\* schemas and the texts streamed against them
SchemaFlat ==
    [type |-> [one |-> "object"],
     properties |-> <<[key |-> Chars("name"), schema |-> [type |-> [one |-> "string"]]],
                      [key |-> Chars("age"), schema |-> [type |-> [one |-> "number"]]]>>,
     required |-> <<Chars("name")>>]
SchemaNested ==
    [type |-> [one |-> "object"],
     properties |-> <<[key |-> Chars("user"),
                       schema |-> [type |-> [one |-> "object"],
                                   properties |-> <<[key |-> Chars("name"),
                                                     schema |-> [type |-> [one |-> "string"]]]>>,
                                   required |-> <<Chars("name")>>]]>>,
     required |-> <<Chars("user")>>]
SchemaTags ==
    [type |-> [one |-> "object"],
     properties |-> <<[key |-> Chars("tags"),
                       schema |-> [type |-> [one |-> "array"],
                                   items |-> [one |-> [type |-> [one |-> "string"]]]]]>>]
SchemaNumbers ==
    [type |-> [one |-> "array"], items |-> [one |-> [type |-> [one |-> "number"], minimum |-> 0]]]
SchemaString == [type |-> [one |-> "string"], minLength |-> 1]

SchemaCases ==
    {[schema |-> SchemaFlat, doc |-> Chars(text)] : text \in
        {"{\"name\":\"Jo\",\"age\":30}", "{\"name\":\"Jo\"}", "{\"age\":\"x\"}", "[1]"}}
    \cup {[schema |-> SchemaNested, doc |-> Chars(text)] : text \in
        {"{\"user\":{\"name\":\"x\"}}", "{\"user\":{}}", "{\"user\":1}", "{\"user\":[]}"}}
    \cup {[schema |-> SchemaTags, doc |-> Chars(text)] : text \in
        {"{\"tags\":[\"a\",\"b\"]}", "{\"tags\":[]}", "{\"tags\":[1]}", "{}", "{\"tags\":{}}"}}
    \cup {[schema |-> SchemaNumbers, doc |-> Chars(text)] : text \in
        {"[1,2]", "[]", "[1,-2]", "[\"x\"]", "{}", "[1,{}]", "[[1]]"}}
    \cup {[schema |-> SchemaString, doc |-> Chars(text)] : text \in {"\"ab\"", "\"\"", "1 "}}

\* the three lenient flags of ParserOptions, and texts in which each one matters
LenientFlags == {"allowTrailingCommas", "allowUnquotedKeys", "allowSingleQuotes"}
FlagDocs == {Chars(text) : text \in {"{'a': 'b'}", "['x']", "{a:1}", "[1,,2]"}}

\* what the caller passes to the constructor, with the text it then streams
Scenarios ==
    {[user |-> [llmMode |-> m], doc |-> d] : m \in BOOLEAN, d \in Docs \cup FlagDocs}
    \cup {[user |-> [g \in {"llmMode", f} |-> g = "llmMode"], doc |-> d] :
             f \in LenientFlags, d \in FlagDocs}
    \cup {[user |-> [g \in {f} |-> TRUE], doc |-> d] : f \in LenientFlags, d \in FlagDocs}
    \cup {[user |-> [llmMode |-> m, maxDepth |-> TestMaxDepth], doc |-> d] : m \in BOOLEAN, d \in DepthDocs}
    \cup {[user |-> [llmMode |-> m, schema |-> c.schema], doc |-> c.doc] : m \in BOOLEAN, c \in SchemaCases}

\* the parser's fields as one record, and back
P == [state |-> state, stack |-> stack, result |-> result, errors |-> errors,
      bytesProcessed |-> bytesProcessed, completedPaths |-> completedPaths,
      pendingPaths |-> pendingPaths, tokenizer |-> tokenizer, events |-> events,
      thrown |-> FALSE, validator |-> HasSchema]

Install(q) ==
    /\ state' = q.state
    /\ stack' = q.stack
    /\ result' = q.result
    /\ errors' = q.errors
    /\ bytesProcessed' = q.bytesProcessed
    /\ completedPaths' = q.completedPaths
    /\ pendingPaths' = q.pendingPaths
    /\ tokenizer' = q.tokenizer
    /\ events' = q.events

NoSnapshot == [k |-> "none"]
NoCall == [k |-> "none"]
NoCalls == [canBeType |-> NoCall, validate |-> NoCall]
Idle == [k |-> "idle"]

Init ==
    /\ \E sc \in Scenarios : given = sc.user /\ options = ParserOptions(sc.user) /\ doc = sc.doc
    /\ state = NewParser.state
    /\ stack = NewParser.stack
    /\ result = NewParser.result
    /\ errors = NewParser.errors
    /\ bytesProcessed = NewParser.bytesProcessed
    /\ completedPaths = NewParser.completedPaths
    /\ pendingPaths = NewParser.pendingPaths
    /\ tokenizer = NewParser.tokenizer
    /\ events = NewParser.events
    /\ snapshot = NoSnapshot
    /\ raised = FALSE
    /\ fed = 0
    /\ resets = 0
    /\ plain = [NewParser EXCEPT !.validator = FALSE]
    /\ queries = NoCalls
    /\ resolving = Idle

\* parser.feed(chunk) with the next n characters of the text
Feed(n) ==
    /\ fed + n <= Len(doc)
    /\ LET Returns(q) ==
               /\ Install(q[1])
               /\ raised' = q[1].thrown
               /\ snapshot' = IF q[1].thrown THEN NoSnapshot ELSE buildResult(q[1])
               /\ plain' = q[2]
       IN  Returns([i \in 1..2 |-> feed(IF i = 1 THEN P ELSE plain,
                                        SubSeq(doc, fed + 1, fed + n))])
    /\ fed' = fed + n
    /\ UNCHANGED <<given, options, doc, resets, queries, resolving>>

\* parser.reset(), after which the caller streams the text again from its start;
\* events then holds the calls made since the reset
Reset ==
    /\ resets < MaxResets
    /\ fed > 0
    /\ Install([reset(P) EXCEPT !.events = <<>>])
    /\ snapshot' = NoSnapshot
    /\ raised' = FALSE
    /\ fed' = 0
    /\ resets' = resets + 1
    /\ plain' = [reset(plain) EXCEPT !.events = <<>>, !.thrown = FALSE]
    /\ UNCHANGED <<given, options, doc, queries, resolving>>

Next == (\E n \in 1..MaxChunk : Feed(n)) \/ Reset

Spec == Init /\ [][Next]_vars

-----------------------------------------------------------------------------
(* The SchemaValidator called directly, as the validator tests call it *)

SchemaTuple ==
    [type |-> [one |-> "array"],
     items |-> [list |-> <<[type |-> [one |-> "string"]], [type |-> [one |-> "number"]]>>],
     additionalItems |-> [bool |-> FALSE]]
SchemaOpenTuple ==
    [type |-> [one |-> "array"],
     items |-> [list |-> <<[type |-> [one |-> "string"]]>>]]
SchemaPair == [type |-> [one |-> "object"],
               properties |-> <<[key |-> Chars("name"), schema |-> SchemaTuple]>>]
SchemaUntyped ==
    [properties |-> <<[key |-> Chars("name"), schema |-> [type |-> [one |-> "string"]]]>>]
SchemaRequiredOnly == [required |-> <<Chars("name")>>]
SchemaItemsOnly == [items |-> [one |-> [type |-> [one |-> "number"]]]]
SchemaTypeList == [type |-> [list |-> <<"string", "null">>]]
SchemaInteger == [type |-> [one |-> "integer"]]

ValidatorSchemas ==
    {SchemaFlat, SchemaTags, SchemaNumbers, SchemaString, SchemaTuple, SchemaOpenTuple,
     SchemaPair, SchemaUntyped, SchemaRequiredOnly, SchemaItemsOnly, SchemaTypeList,
     SchemaInteger}

JSONSchemaTypes == {"string", "number", "integer", "boolean", "object", "array", "null"}

ValidatorPaths == {<<>>, <<Chars("name")>>, <<Chars("tags")>>, <<Chars("0")>>}

ValidatorValues ==
    {Str(Chars("hi")), Num(42), Bool(TRUE), Null, Obj(<<>>),
     Obj(<<[key |-> Chars("name"), value |-> Str(Chars("hi"))]>>),
     Arr(<<>>), Arr(<<Str(Chars("hi")), Num(42)>>),
     Arr(<<Str(Chars("hi")), Num(42), Str(Chars("extra"))>>),
     Arr(<<Str(Chars("hi")), Num(42), Str(Chars("extra")), Num(7)>>)}

\* new SchemaValidator(schema)
ValidatorInit ==
    /\ \E schema \in ValidatorSchemas :
           /\ given = [schema |-> schema]
           /\ options = ParserOptions([schema |-> schema])
    /\ doc = <<>>
    /\ state = NewParser.state
    /\ stack = NewParser.stack
    /\ result = NewParser.result
    /\ errors = NewParser.errors
    /\ bytesProcessed = NewParser.bytesProcessed
    /\ completedPaths = NewParser.completedPaths
    /\ pendingPaths = NewParser.pendingPaths
    /\ tokenizer = NewParser.tokenizer
    /\ events = NewParser.events
    /\ snapshot = NoSnapshot
    /\ raised = FALSE
    /\ fed = 0
    /\ resets = 0
    /\ plain = [NewParser EXCEPT !.validator = FALSE]
    /\ queries = NoCalls
    /\ resolving = Idle

\* validator.canBeType(type, path)
CanBeType(type, path) ==
    /\ queries' = [queries EXCEPT !.canBeType = [k |-> "call", type |-> type, path |-> path,
                                                 returned |-> canBeType(type, path)]]
    /\ UNCHANGED <<given, options, state, stack, result, errors, bytesProcessed,
                   completedPaths, pendingPaths, tokenizer, events, snapshot, raised, doc,
                   fed, resets, plain, resolving>>

\* validator.validate(value, path)
Validate(value, path) ==
    /\ queries' = [queries EXCEPT !.validate = [k |-> "call", value |-> value, path |-> path,
                                                returned |-> validate(value, path)]]
    /\ UNCHANGED <<given, options, state, stack, result, errors, bytesProcessed,
                   completedPaths, pendingPaths, tokenizer, events, snapshot, raised, doc,
                   fed, resets, plain, resolving>>

ValidatorNext ==
    \/ \E type \in JSONSchemaTypes, path \in ValidatorPaths : CanBeType(type, path)
    \/ \E value \in ValidatorValues, path \in ValidatorPaths : Validate(value, path)

ValidatorSpec == ValidatorInit /\ [][ValidatorNext]_vars

-----------------------------------------------------------------------------
(* $ref resolution, one resolveRef invocation per step *)

\* how many nested invocations the call stack of the engine holds
MaxCallStack == 4

Ref(name) == [ref |-> [pointer |-> "#/$defs/", name |-> Chars(name)]]

\* the schema of the $ref test: a property that refers to a definition
SchemaAddress ==
    [type |-> [one |-> "object"],
     properties |-> <<[key |-> Chars("home"), schema |-> Ref("address")]>>,
     defs |-> <<[key |-> Chars("address"),
                 schema |-> [type |-> [one |-> "object"],
                             properties |-> <<[key |-> Chars("city"),
                                               schema |-> [type |-> [one |-> "string"]]]>>,
                             required |-> <<Chars("city")>>]]>>]
\* a definition whose property refers back to the definition
SchemaList ==
    [ref |-> [pointer |-> "#/definitions/", name |-> Chars("node")],
     definitions |-> <<[key |-> Chars("node"),
                        schema |-> [type |-> [one |-> "object"],
                                    properties |-> <<[key |-> Chars("next"),
                                                      schema |-> [ref |-> [pointer |-> "#/definitions/",
                                                                           name |-> Chars("node")]]]>>]]>>]
\* a definition that refers to a definition that refers to a third
SchemaChain ==
    [type |-> [one |-> "object"],
     properties |-> <<[key |-> Chars("home"), schema |-> Ref("a")]>>,
     defs |-> <<[key |-> Chars("a"), schema |-> Ref("b")],
                [key |-> Chars("b"), schema |-> Ref("c")],
                [key |-> Chars("c"), schema |-> [type |-> [one |-> "string"]]]>>]
\* a reference to a definition that is not there
SchemaDangling ==
    [type |-> [one |-> "object"],
     properties |-> <<[key |-> Chars("home"), schema |-> Ref("missing")]>>,
     defs |-> <<[key |-> Chars("a"), schema |-> [type |-> [one |-> "string"]]]>>]
\* a definition that is a reference to itself
SchemaSelf ==
    [type |-> [one |-> "object"],
     properties |-> <<[key |-> Chars("home"), schema |-> Ref("self")]>>,
     defs |-> <<[key |-> Chars("self"), schema |-> Ref("self")]>>]
\* two definitions that are references to each other
SchemaCycle ==
    [type |-> [one |-> "object"],
     properties |-> <<[key |-> Chars("home"), schema |-> Ref("ping")]>>,
     defs |-> <<[key |-> Chars("ping"), schema |-> Ref("pong")],
                [key |-> Chars("pong"), schema |-> Ref("ping")]>>]

RefSchemas ==
    {SchemaAddress, SchemaList, SchemaChain, SchemaDangling, SchemaSelf, SchemaCycle,
     SchemaFlat}

RefCallers == {"validate", "canBeType", "getSchemaAtPath"}

RefPaths ==
    {<<>>, <<Chars("home")>>, <<Chars("home"), Chars("city")>>, <<Chars("next")>>,
     <<Chars("next"), Chars("next")>>, <<Chars("name")>>}

\* new SchemaValidator(schema)
RefInit ==
    /\ \E schema \in RefSchemas :
           /\ given = [schema |-> schema]
           /\ options = ParserOptions([schema |-> schema])
    /\ doc = <<>>
    /\ state = NewParser.state
    /\ stack = NewParser.stack
    /\ result = NewParser.result
    /\ errors = NewParser.errors
    /\ bytesProcessed = NewParser.bytesProcessed
    /\ completedPaths = NewParser.completedPaths
    /\ pendingPaths = NewParser.pendingPaths
    /\ tokenizer = NewParser.tokenizer
    /\ events = NewParser.events
    /\ snapshot = NoSnapshot
    /\ raised = FALSE
    /\ fed = 0
    /\ resets = 0
    /\ plain = [NewParser EXCEPT !.validator = FALSE]
    /\ queries = NoCalls
    /\ resolving = Idle

\* validate, canBeType or getSchemaAtPath is called with a path: each one starts by
\* calling resolveRef on the root schema
SchemaCall(caller, path) ==
    /\ resolving.k # "resolveRef"
    /\ resolving' = [k |-> "resolveRef", caller |-> caller, schema |-> RootSchema,
                     rest |-> path, depth |-> 1]
    /\ UNCHANGED <<given, options, state, stack, result, errors, bytesProcessed,
                   completedPaths, pendingPaths, tokenizer, events, snapshot, raised, doc,
                   fed, resets, plain, queries>>

\* one invocation of resolveRef: it calls itself on the definition referred to, or
\* returns its argument through all the invocations below it; getSchemaAtPath then
\* follows the next segment and calls resolveRef again, or returns
ResolveRef ==
    /\ resolving.k = "resolveRef"
    /\ LET schema == resolving.schema
           Returns(found) ==
               IF Len(resolving.rest) = 0
               THEN [k |-> "returned", caller |-> resolving.caller, schema |-> found]
               ELSE IF found.k = "undefined"
               THEN [k |-> "returned", caller |-> resolving.caller, schema |-> NoSchema]
               ELSE [resolving EXCEPT !.schema = found.schema, !.rest = Tail(@),
                                      !.depth = 1]
       IN  resolving' =
             IF Has(schema, "ref")
                /\ schema.ref.pointer \in {"#/$defs/", "#/definitions/"}
                /\ Lookup(Definitions, schema.ref.name).found
             THEN IF resolving.depth >= MaxCallStack
                  THEN [k |-> "RangeError", caller |-> resolving.caller]
                  ELSE [resolving EXCEPT !.schema = Lookup(Definitions, schema.ref.name).schema,
                                         !.depth = @ + 1]
             ELSE Returns(IF Len(resolving.rest) = 0 THEN Found(schema)
                          ELSE SchemaStep(schema, Head(resolving.rest)))
    /\ UNCHANGED <<given, options, state, stack, result, errors, bytesProcessed,
                   completedPaths, pendingPaths, tokenizer, events, snapshot, raised, doc,
                   fed, resets, plain, queries>>

RefNext ==
    \/ \E caller \in RefCallers, path \in RefPaths : SchemaCall(caller, path)
    \/ ResolveRef

RefSpec == RefInit /\ [][RefNext]_vars

-----------------------------------------------------------------------------
(* The standard JSON grammar (RFC 8259), as the reference the parser is held to. *)
(* Numbers are integers: the texts considered carry no fraction and no exponent. *)

JsonWhitespace == {" ", "\t", "\n", "\r"}
JsonFail == [ok |-> FALSE]
JsonOk(value, next) == [ok |-> TRUE, value |-> value, next |-> next]
HexDigits == Digits \cup {"a", "b", "c", "d", "e", "f", "A", "B", "C", "D", "E", "F"}

\* the character a \uXXXX escape denotes
CodePoint(hex) ==
    IF hex = <<"0", "0", "4", "1">> THEN "A" ELSE "U+" \o hex[1] \o hex[2] \o hex[3] \o hex[4]

JsonEscape(c) ==
    CASE c = "n" -> "\n" [] c = "r" -> "\r" [] c = "t" -> "\t" [] c = "b" -> "\\b"
      [] c = "f" -> "\f" [] OTHER -> c

\* the string whose opening quote precedes 0-based position i
RECURSIVE JsonString(_, _, _)
JsonString(s, i, acc) ==
    IF i >= Len(s) THEN JsonFail
    ELSE LET c == s[i + 1] IN
         IF c = "\"" THEN JsonOk(Str(acc), i + 1)
         ELSE IF c \in {"\n", "\t", "\r", "\f"} THEN JsonFail
         ELSE IF c # "\\" THEN JsonString(s, i + 1, Append(acc, c))
         ELSE IF i + 1 >= Len(s) THEN JsonFail
         ELSE LET d == s[i + 2] IN
              IF d \in {"\"", "\\", "/", "b", "f", "n", "r", "t"}
              THEN JsonString(s, i + 2, Append(acc, JsonEscape(d)))
              ELSE IF d = "u" /\ i + 6 <= Len(s) /\ \A j \in 3..6 : s[i + j] \in HexDigits
              THEN JsonString(s, i + 6, Append(acc, CodePoint(SubSeq(s, i + 3, i + 6))))
              ELSE JsonFail

JsonNumber(s, i) ==
    LET neg == s[i + 1] = "-"
        from == IF neg THEN i + 1 ELSE i
        to == ScanWhile(s, from, Digits)
        digits == SubSeq(s, from + 1, to)
        magnitude == DecimalValue(digits)
    IN  IF Len(digits) = 0 \/ (Len(digits) > 1 /\ digits[1] = "0") THEN JsonFail
        ELSE IF to < Len(s) /\ s[to + 1] \in {".", "e", "E"} THEN JsonFail
        ELSE JsonOk(Num(IF neg THEN 0 - magnitude ELSE magnitude), to)

RECURSIVE JsonValue(_, _)
RECURSIVE JsonMembers(_, _, _)
RECURSIVE JsonElements(_, _, _)

JsonValue(s, i0) ==
    LET i == ScanWhile(s, i0, JsonWhitespace) IN
    IF i >= Len(s) THEN JsonFail
    ELSE LET c == s[i + 1]
             j == ScanWhile(s, i + 1, JsonWhitespace)
             rest == Slice(s, i)
         IN  CASE c = "{" -> IF j < Len(s) /\ s[j + 1] = "}" THEN JsonOk(Obj(<<>>), j + 1)
                             ELSE JsonMembers(s, j, Obj(<<>>))
               [] c = "[" -> IF j < Len(s) /\ s[j + 1] = "]" THEN JsonOk(Arr(<<>>), j + 1)
                             ELSE JsonElements(s, j, <<>>)
               [] c = "\"" -> JsonString(s, i + 1, <<>>)
               [] c \in NUMBER_START -> JsonNumber(s, i)
               [] StartsWith(rest, Keywords[1].text) -> JsonOk(Bool(TRUE), i + 4)
               [] StartsWith(rest, Keywords[2].text) -> JsonOk(Bool(FALSE), i + 5)
               [] StartsWith(rest, Keywords[3].text) -> JsonOk(Null, i + 4)
               [] OTHER -> JsonFail

\* members from position i (whitespace skipped), acc the members read so far
JsonMembers(s, i, acc) ==
    IF i >= Len(s) \/ s[i + 1] # "\"" THEN JsonFail
    ELSE LET key == JsonString(s, i + 1, <<>>) IN
         IF ~key.ok THEN JsonFail
         ELSE LET colon == ScanWhile(s, key.next, JsonWhitespace) IN
              IF colon >= Len(s) \/ s[colon + 1] # ":" THEN JsonFail
              ELSE LET value == JsonValue(s, colon + 1) IN
                   IF ~value.ok THEN JsonFail
                   ELSE LET after == ScanWhile(s, value.next, JsonWhitespace)
                            members == ObjSet(acc, key.value.v, value.value)
                        IN  IF after >= Len(s) THEN JsonFail
                            ELSE IF s[after + 1] = "}" THEN JsonOk(members, after + 1)
                            ELSE IF s[after + 1] = ","
                            THEN JsonMembers(s, ScanWhile(s, after + 1, JsonWhitespace), members)
                            ELSE JsonFail

JsonElements(s, i, acc) ==
    LET value == JsonValue(s, i) IN
    IF ~value.ok THEN JsonFail
    ELSE LET after == ScanWhile(s, value.next, JsonWhitespace)
             elements == Append(acc, value.value)
         IN  IF after >= Len(s) THEN JsonFail
             ELSE IF s[after + 1] = "]" THEN JsonOk(Arr(elements), after + 1)
             ELSE IF s[after + 1] = "," THEN JsonElements(s, after + 1, elements)
             ELSE JsonFail

\* JSON.parse(text): ok with the value, or not ok for a SyntaxError
JsonParse(text) ==
    LET r == JsonValue(text, 0) IN
    IF r.ok /\ ScanWhile(text, r.next, JsonWhitespace) = Len(text) THEN JsonOk(r.value, Len(text))
    ELSE JsonFail

-----------------------------------------------------------------------------
(* Properties *)

StrictMode == ~options.llmMode
Streamed == fed > 0 /\ fed = Len(doc)
Reference == JsonParse(doc)
Returned == snapshot # NoSnapshot
HasEvent(kind) == \E i \in 1..Len(events) : events[i].e = kind
DepthExceeded ==
    \E i \in 1..Len(events) :
        events[i].e = "onError" /\ events[i].message = "Maximum depth exceeded"

\* what a caller holds when the text has been streamed
Outcome(q) ==
    [complete |-> q.state = "COMPLETE", data |-> getCurrentData(q), failed |-> q.state = "ERROR"]

\* C1: strict mode, no schema: every well-formed JSON text, in any partition into
\* chunks, is fed without a raise, and the last snapshot is complete with data equal
\* to the standard parse of the text.
C1_ValidJsonParsesToStandardValue ==
    (StrictMode /\ ~HasSchema /\ options.maxDepth = DefaultMaxDepth /\ Reference.ok)
    => /\ ~raised
       /\ Streamed => /\ Returned
                      /\ snapshot.complete
                      /\ deepEqual(snapshot.data, Reference.value)

\* C2: strict mode: a well-formed JSON text streamed in any partition ends in the
\* outcome of feeding the whole text as one chunk to a fresh parser: the same complete
\* flag, the same data, and an error state in both or in neither.
C2_ChunkingInvariance ==
    (StrictMode /\ Reference.ok /\ Streamed) => Outcome(P) = Outcome(feed(NewParser, doc))

\* C2 witness: a well-formed text longer than any one chunk has been streamed to completion
C2_Witness ==
    StrictMode /\ Reference.ok /\ Streamed /\ Len(doc) > 2 * MaxChunk /\ state = "COMPLETE"

\* C3: with a schema, a well-formed text whose value conforms to the schema produces
\* no validation error at any point of any partition, and no onValidationError call.
C3_ConformingInputHasNoErrors ==
    (HasSchema /\ Reference.ok /\ validate(Reference.value, <<>>) = <<>>)
    => errors = <<>> /\ ~HasEvent("onValidationError")

\* C4: in every snapshot completedFields and pendingFields are disjoint.
C4_CompletedAndPendingDisjoint ==
    Returned => snapshot.completedFields \cap snapshot.pendingFields = {}

\* C5: between two resets the completed paths only grow from one feed to the next,
\* whether or not a feed raises in between.
C5_CompletionMonotonic ==
    [][resets' = resets => completedPaths \subseteq completedPaths']_vars

\* C5 witness: in strict mode a feed has raised, and a later feed returned a snapshot
\* that still lists completed fields
C5_Witness ==
    StrictMode /\ state = "ERROR" /\ ~raised /\ Returned /\ snapshot.completedFields # {}

\* C6: the stack never holds more than maxDepth frames (so an open token met at
\* maxDepth frames pushes none), and containers nested exactly maxDepth deep are accepted.
C6_DepthBound ==
    /\ Len(stack) <= options.maxDepth
    /\ Returned => snapshot.depth <= options.maxDepth
    /\ (options.maxDepth = TestMaxDepth /\ Streamed
        /\ doc \in {NestedArrays(TestMaxDepth), NestedObjects(TestMaxDepth)})
       => ~DepthExceeded /\ state = "COMPLETE"

\* C6 witness: an open token was refused for depth and the stack holds exactly maxDepth frames
C6_Witness == DepthExceeded /\ Len(stack) = options.maxDepth

\* C7: in both modes, once an open token was refused for depth the parser is in state
\* Error and stays there until reset.
C7_DepthExceededIsFatal == DepthExceeded => state = "ERROR"

\* the (state, token kind) pairs of the transition table
Listed(s, kind) ==
    CASE s = "INITIAL" -> kind \in {"OBJECT_START", "ARRAY_START"} \cup Scalars
      [] s = "EXPECTING_KEY" -> kind \in {"KEY", "STRING", "OBJECT_END"}
      [] s = "EXPECTING_COLON" -> kind = "COLON"
      [] s = "EXPECTING_VALUE" -> kind \in {"OBJECT_START", "ARRAY_START"} \cup Scalars
      [] s = "IN_ARRAY" -> kind \in {"ARRAY_END", "OBJECT_START", "ARRAY_START"} \cup Scalars
      [] s = "EXPECTING_COMMA_OR_END" -> kind \in {"COMMA", "OBJECT_END", "ARRAY_END"}
      [] OTHER -> FALSE

TableStates ==
    {"INITIAL", "EXPECTING_KEY", "EXPECTING_COLON", "EXPECTING_VALUE", "IN_ARRAY",
     "EXPECTING_COMMA_OR_END", "COMPLETE"}

\* C8: strict mode: a feed that delivers one token whose kind the table does not list
\* for the state the parser is in raises and leaves the parser in state Error.
C8_UnlistedPairRaises ==
    [][(StrictMode /\ state \in TableStates /\ Len(tokenizer'.tokens) = 1
        /\ ~Listed(state, tokenizer'.tokens[1].type))
       => (raised' /\ state' = "ERROR")]_vars

\* C9: lenient mode: no feed raises; every feed returns a snapshot.
C9_LenientNeverRaises ==
    options.llmMode => /\ ~raised
                       /\ fed > 0 => Returned

\* C9 witness: in lenient mode a structural error was met and the feed returned a snapshot
C9_Witness == options.llmMode /\ HasEvent("onError") /\ state = "ERROR" /\ Returned

\* C10: lenient mode: after a token that the parser state does not permit, the snapshot
\* lists an error with keyword syntax and is not valid.
C10_StructuralErrorRecorded ==
    (options.llmMode /\ Returned /\ HasEvent("onError"))
    => /\ \E j \in 1..Len(snapshot.errors) : snapshot.errors[j].keyword = "syntax"
       /\ ~snapshot.valid

\* C11: getResult raises in every state other than Complete; in state Complete the
\* last feed returned a snapshot with complete=true and getResult returns its data.
C11_GetResultOnlyWhenComplete ==
    /\ state # "COMPLETE" => getResult(P).thrown
    /\ state = "COMPLETE" => /\ ~getResult(P).thrown
                             /\ Returned /\ snapshot.complete
                             /\ getResult(P).value = snapshot.data

\* C11 witness: a parse completed with a non-empty container as its root value
C11_Witness ==
    /\ state = "COMPLETE" /\ Returned
    /\ snapshot.data.k \in {"object", "array"} /\ Len(snapshot.data.v) > 0

\* C12: a reset step leaves every field of the parser as the constructor leaves it
\* (state Initial, empty stack, empty completed and pending sets, no errors,
\* bytesProcessed 0, empty tokenizer buffer), and the next feed of any chunk returns
\* what a freshly constructed parser returns for that chunk.
C12_ResetRestoresFreshParser ==
    [][resets' # resets =>
         /\ state' = "INITIAL" /\ stack' = <<>> /\ completedPaths' = {} /\ pendingPaths' = {}
         /\ errors' = <<>> /\ bytesProcessed' = 0 /\ tokenizer'.buffer = <<>>
         /\ tokenizer' = NewParser.tokenizer /\ result' = NewParser.result
         /\ \A n \in 1..MaxChunk :
                n <= Len(doc) =>
                    LET Same(a, b) == /\ a.thrown = b.thrown
                                      /\ buildResult(a) = buildResult(b)
                                      /\ a.tokenizer = b.tokenizer /\ a.stack = b.stack
                    IN  Same(feed([P EXCEPT !.tokenizer = tokenizer', !.state = state',
                                            !.stack = stack', !.result = result',
                                            !.errors = errors', !.bytesProcessed = bytesProcessed',
                                            !.completedPaths = completedPaths',
                                            !.pendingPaths = pendingPaths', !.events = events'],
                                  SubSeq(doc, 1, n)),
                             feed(NewParser, SubSeq(doc, 1, n)))]_vars

\* C12 witness: the text is an unfinished string, so the reset came at a chunk boundary
\* inside the string, and a feed after the reset has returned
C12_Witness == doc = Chars("\"ab") /\ resets = 1 /\ fed > 0 /\ Returned

\* C13: lenient mode: an object with unquoted keys and an optional trailing comma, fed
\* in any partition, ends complete, with the data of the same text with its keys quoted,
\* and with no errors.
C13_UnquotedKeysParse ==
    \A c \in UnquotedCases :
        (options.llmMode /\ ~HasSchema /\ doc = c.text /\ Streamed)
        => /\ Returned /\ snapshot.complete
           /\ deepEqual(snapshot.data, JsonParse(c.quoted).value)
           /\ snapshot.errors = <<>>


\* the caller's options switch lenient mode on, and may switch the flag f off again
LlmCaller == "llmMode" \in DOMAIN given /\ given.llmMode
SwitchedOff(f) == f \in DOMAIN given /\ ~given[f]

\* the whole text was taken without any error, and means what the standard text means
ParsedAs(text) ==
    /\ Returned /\ snapshot.complete /\ snapshot.errors = <<>>
    /\ ~HasEvent("onError")
    /\ deepEqual(snapshot.data, JsonParse(Chars(text)).value)

\* C14: under llmMode=true a lenient flag is on unless the caller set it to false: the
\* single-quoted, unquoted-key and repeated-comma texts are taken exactly when their flag
\* was not switched off, so llmMode=true with allowSingleQuotes=false does not admit '
C14_LlmModeFlagPrecedence ==
    (LlmCaller /\ Streamed) =>
        /\ doc = Chars("{'a': 'b'}")
             => (ParsedAs("{\"a\": \"b\"}") <=> ~SwitchedOff("allowSingleQuotes"))
        /\ doc = Chars("['x']") => (ParsedAs("[\"x\"]") <=> ~SwitchedOff("allowSingleQuotes"))
        /\ doc = Chars("{a:1}") => (ParsedAs("{\"a\":1}") <=> ~SwitchedOff("allowUnquotedKeys"))
        /\ doc = Chars("[1,,2]") => (ParsedAs("[1,2]") <=> ~SwitchedOff("allowTrailingCommas"))

\* the caller switched the flag f on and said nothing about llmMode
AloneOn(f) == "llmMode" \notin DOMAIN given /\ f \in DOMAIN given /\ given[f]

\* C15: each lenient flag works without llmMode: with allowSingleQuotes=true a
\* single-quoted text, and with allowUnquotedKeys=true a text with an unquoted key, is fed
\* without a raise and completes with the data of the same text in double quotes
C15_FlagsWorkAlone ==
    /\ (AloneOn("allowSingleQuotes") /\ doc = Chars("{'a': 'b'}") /\ fed > 0)
         => (~raised /\ (Streamed => ParsedAs("{\"a\": \"b\"}")))
    /\ (AloneOn("allowSingleQuotes") /\ doc = Chars("['x']") /\ fed > 0)
         => (~raised /\ (Streamed => ParsedAs("[\"x\"]")))
    /\ (AloneOn("allowUnquotedKeys") /\ doc = Chars("{a:1}") /\ fed > 0)
         => (~raised /\ (Streamed => ParsedAs("{\"a\":1}")))

\* the containers of a value in the order in which their closing brackets arrive
RECURSIVE ClosedIn(_), ClosedInAll(_)
ClosedInAll(values) ==
    IF values = <<>> THEN <<>> ELSE ClosedIn(Head(values)) \o ClosedInAll(Tail(values))
ClosedIn(value) ==
    IF value.k = "array" THEN ClosedInAll(value.v) \o <<value>>
    ELSE IF value.k = "object"
    THEN ClosedInAll([i \in 1..Len(value.v) |-> value.v[i].value]) \o <<value>>
    ELSE <<>>

\* the calls of one kind made to options.events, in order
EventsOf(kind) == SelectSeq(events, LAMBDA event : event.e = kind)

\* C16: when a standard text has been streamed in strict mode, the onPartialObject calls
\* are, in order, exactly the containers of the text in closing order, each with the
\* closed container's value, objects and arrays alike
C16_PartialObjectPerClose ==
    (StrictMode /\ ~HasSchema /\ options.maxDepth = DefaultMaxDepth /\ Reference.ok
       /\ Streamed /\ Returned)
    => LET Matches(fired, closed) ==
               /\ Len(fired) = Len(closed)
               /\ \A i \in 1..Len(fired) : deepEqual(fired[i].data, closed[i])
       IN  Matches(EventsOf("onPartialObject"), ClosedIn(Reference.value))

\* the object members of a value in the order in which their values complete
RECURSIVE MembersIn(_), MembersInAll(_), MembersOf(_)
MembersInAll(values) ==
    IF values = <<>> THEN <<>> ELSE MembersIn(Head(values)) \o MembersInAll(Tail(values))
MembersOf(members) ==
    IF members = <<>> THEN <<>>
    ELSE MembersIn(Head(members).value) \o <<Head(members)>> \o MembersOf(Tail(members))
MembersIn(value) ==
    IF value.k = "array" THEN MembersInAll(value.v)
    ELSE IF value.k = "object" THEN MembersOf(value.v)
    ELSE <<>>

\* no object of the text repeats a key: the text has as many colons as its value has
\* members (no text of Docs has a colon inside a string)
RepeatsNoKey ==
    Cardinality({i \in 1..Len(doc) : doc[i] = ":"}) = Len(MembersIn(Reference.value))

\* C17: while a standard text is streamed in strict mode the onCompleteField calls are
\* the first members of the text in the order in which their values complete, each with
\* its key and value, and once the text is streamed they are all its members: one call
\* per member, whatever the chunking (texts that repeat a key in an object are left out)
C17_CompleteFieldPerMember ==
    (StrictMode /\ ~HasSchema /\ options.maxDepth = DefaultMaxDepth /\ Reference.ok
       /\ RepeatsNoKey)
    => LET Matches(fired, members) ==
               /\ Len(fired) <= Len(members)
               /\ Streamed => Len(fired) = Len(members)
               /\ \A i \in 1..Len(fired) :
                      /\ fired[i].field = members[i].key
                      /\ deepEqual(fired[i].value, members[i].value)
       IN  Matches(EventsOf("onCompleteField"), MembersIn(Reference.value))

\* C18: the errors list of every snapshot is, entry by entry, the list of the errors
\* handed to onValidationError since the parser was built or reset: each entry was
\* delivered exactly once before the feed returned
C18_ErrorsDelivered ==
    Returned
    => LET Delivered(calls) ==
               /\ Len(calls) = Len(snapshot.errors)
               /\ \A i \in 1..Len(calls) : calls[i].error = snapshot.errors[i]
       IN  Delivered(EventsOf("onValidationError"))

\* the position of the container of frame j: the keys and indices under which the
\* frames below it hold it
PositionOf(j) == getCurrentPath(SubSeq(stack, 1, j - 1), TRUE)

\* the early type check has reported a container opened at this path
RejectedAt(path) ==
    \E i \in 1..Len(snapshot.errors) :
        /\ snapshot.errors[i].keyword = "type"
        /\ snapshot.errors[i].message.text = "Expected different type"
        /\ snapshot.errors[i].path = path

\* C19: in every snapshot of a parser with a schema, each container that is still open
\* has a 'type' error of the early check at its own position exactly when the schema
\* resolved at that position does not admit its kind
C19_EarlyTypeRejection ==
    (HasSchema /\ Returned)
    => \A j \in 1..Len(stack) :
           LET At(path) == RejectedAt(path) <=> ~canBeType(stack[j].type, path)
           IN  At(PositionOf(j))

\* C20: a parser with a schema and a parser without one, fed the same chunks, are in the
\* same state after every feed, raise together, and return snapshots with the same
\* complete, data, completedFields, pendingFields and depth
C20_ValidationDoesNotSteerParsing ==
    HasSchema
    => /\ state = plain.state
       /\ raised = plain.thrown
       /\ Returned
            => LET Same(other) ==
                       /\ snapshot.complete = other.complete
                       /\ snapshot.data = other.data
                       /\ snapshot.completedFields = other.completedFields
                       /\ snapshot.pendingFields = other.pendingFields
                       /\ snapshot.depth = other.depth
               IN  Same(buildResult(plain))

\* an object was streamed to completion with validation errors that the parser without a
\* schema does not have
C20_Witness ==
    /\ HasSchema /\ Streamed /\ Returned /\ snapshot.complete
    /\ snapshot.data.k = "object" /\ Len(snapshot.data.v) > 0
    /\ snapshot.errors # <<>> /\ ~snapshot.valid
    /\ plain.errors = <<>> /\ plain.state = "COMPLETE"

\* every error the schema gives for this value at this path is in the snapshot
ReportedIn(errs) ==
    \A i \in 1..Len(errs) :
        \E n \in 1..Len(snapshot.errors) :
            /\ snapshot.errors[n].path = errs[i].path
            /\ snapshot.errors[n].keyword = errs[i].keyword

ScalarKinds == {"string", "number", "boolean", "null"}

\* C21: in every snapshot of a parser with a schema, each scalar already assigned in a
\* container that is still open (member k of an object at path p, element i of an array
\* at path p) has the errors of its schema location, at path p+[k] or p+[i], in the
\* snapshot's errors: the scalar was validated when assigned, not when its container closes
C21_ScalarValidatedWhenAssigned ==
    (HasSchema /\ Returned)
    => \A j \in 1..Len(stack) :
           LET Child(n) == IF stack[j].type = "object" THEN stack[j].data.v[n].value
                           ELSE stack[j].data.v[n]
               Name(n) == IF stack[j].type = "object" THEN stack[j].data.v[n].key
                          ELSE ToDecimal(n - 1)
               Under(path) ==
                   \A n \in 1..Len(stack[j].data.v) :
                       Child(n).k \in ScalarKinds
                       => ReportedIn(validate(Child(n), Append(path, Name(n))))
           IN  Under(PositionOf(j))

\* the kinds a value is of: an integral number is a number and an integer
KindsOf(value) ==
    IF value.k = "number" THEN {"number", "integer"} ELSE {getJSONType(value)}

\* C22: when canBeType(t, p) returned false, validate(v, p) of a value v of kind t holds
\* an error with keyword 'type'
C22_CanBeTypeAgreesWithValidate ==
    (/\ queries.canBeType # NoCall /\ queries.validate # NoCall
     /\ queries.canBeType.path = queries.validate.path
     /\ queries.canBeType.type \in KindsOf(queries.validate.value)
     /\ ~queries.canBeType.returned)
    => \E i \in 1..Len(queries.validate.returned) : queries.validate.returned[i].keyword = "type"

\* the schema a validate call resolves for its path
SchemaFor(path) == IF Len(path) > 0 THEN getSchemaAtPath(path) ELSE Found(RootSchema)

\* the schema is a tuple schema that forbids additional items
ClosedTuple(found) ==
    /\ found.k # "undefined"
    /\ Has(found.schema, "items") /\ Has(found.schema.items, "list")
    /\ Has(found.schema, "additionalItems") /\ Has(found.schema.additionalItems, "bool")
    /\ ~found.schema.additionalItems.bool

\* C23: validating an array against a tuple schema with additionalItems=false gives, for
\* every element index i >= length(items), exactly one 'additionalItems' error whose path
\* is the array's path followed by the decimal string of i, and none for i < length(items)
C23_AdditionalItemsPerIndex ==
    (/\ queries.validate # NoCall
     /\ queries.validate.value.k = "array"
     /\ ClosedTuple(SchemaFor(queries.validate.path)))
    => LET Extra(errs, items, at) ==
               \A i \in 0..(Len(queries.validate.value.v) - 1) :
                   Cardinality({n \in 1..Len(errs) :
                                   /\ errs[n].keyword = "additionalItems"
                                   /\ errs[n].path = Append(at, ToDecimal(i))})
                     = IF i >= Len(items) THEN 1 ELSE 0
       IN  Extra(queries.validate.returned,
                 SchemaFor(queries.validate.path).schema.items.list, queries.validate.path)

\* C24: while only digits of a root-level number have been fed, however they were cut
\* into chunks, the snapshot is incomplete with undefined data and the tokenizer
\* classifies its buffer as PartialNumber; the feed of the following whitespace character
\* returns complete=true with the number as data
C24_NumberWaitsForTerminator ==
    \A c \in RootNumberCases :
        (~HasSchema /\ doc = c.text /\ fed > 0)
        => /\ Returned
           /\ fed < Len(doc)
                => /\ ~snapshot.complete
                   /\ snapshot.data = Undefined
                   /\ getPartialToken(tokenizer).type = "PARTIAL_NUMBER"
                   /\ tokenizer.buffer = SubSeq(doc, 1, fed)
           /\ fed = Len(doc) => (snapshot.complete /\ snapshot.data = Num(c.value))

\* two of the three digits of 123 have been fed: the third comes in a later feed
C24_Witness ==
    /\ doc = Chars("123 ") /\ fed = 2 /\ Returned /\ ~snapshot.complete
    /\ tokenizer.buffer = Chars("12")
    /\ getPartialToken(tokenizer).type = "PARTIAL_NUMBER"

\* the top frame is an object whose key has been read, and the buffer holds the start of
\* a string or a number: the feed ended inside the value of that key
InsideMemberValue ==
    /\ state = "EXPECTING_VALUE" /\ Len(stack) > 0
    /\ stack[Len(stack)].type = "object" /\ stack[Len(stack)].currentKey # NoKey
    /\ LET Starts(remaining) ==
               /\ Len(remaining) > 0
               /\ \/ remaining[1] = "\""
                  \/ remaining[1] \in NUMBER_START
                  \/ (TokOpts.allowSingleQuotes /\ remaining[1] = "'")
       IN  Starts(Trim(tokenizer.buffer))

\* the dot-joined path of the member whose key frame j has read
MemberInProgress(j) == Join(Append(PositionOf(j), stack[j].currentKey))

\* the dot-joined paths of the string and number members of the objects in a value
RECURSIVE LeafPaths(_, _)
LeafPaths(value, path) ==
    IF value.k = "object"
    THEN UNION {(IF value.v[n].value.k \in {"string", "number"}
                 THEN {Join(Append(path, value.v[n].key))} ELSE {})
                \cup LeafPaths(value.v[n].value, Append(path, value.v[n].key)) :
                n \in 1..Len(value.v)}
    ELSE IF value.k = "array"
    THEN UNION {LeafPaths(value.v[n], Append(path, ToDecimal(n - 1))) : n \in 1..Len(value.v)}
    ELSE {}

\* the members completed so far, in the open containers or in the finished result
CompletedLeaves ==
    IF Len(stack) = 0 THEN LeafPaths(result, <<>>)
    ELSE UNION {LeafPaths(stack[j].data, PositionOf(j)) : j \in 1..Len(stack)}

C26_MissingCommaTolerated ==
    \A c \in MissingCommaCases :
        (options.llmMode /\ ~HasSchema /\ doc = c.text /\ Streamed)
        => /\ Returned /\ snapshot.complete
           /\ deepEqual(snapshot.data, JsonParse(c.full).value)

\* an object without the comma between its two members was streamed in lenient mode
\* and completed with both members
C26_Witness ==
    /\ options.llmMode /\ doc = Chars("{\"a\":1 \"b\":2}") /\ Streamed /\ Returned
    /\ snapshot.complete /\ snapshot.data.k = "object" /\ Len(snapshot.data.v) = 2

\* C27: whenever the state is Complete the container stack is empty and the root value
\* has been assigned; the snapshot then has depth 0 and data that is not undefined
C27_CompleteMeansRootAssigned ==
    state = "COMPLETE"
    => /\ stack = <<>>
       /\ result # Undefined
       /\ Returned => /\ snapshot.complete /\ snapshot.depth = 0
                      /\ snapshot.data = result

\* a text nested two deep has completed
C27_Witness ==
    /\ state = "COMPLETE" /\ Returned /\ snapshot.depth = 0
    /\ doc = Chars("{\"a\":{\"b\":{\"c\":null}}}")
    /\ snapshot.data.k = "object"

\* C28: whenever the state is ExpectingColon the top frame is an object frame whose
\* pending key is set and is not the empty string
C28_ColonFollowsNonEmptyKey ==
    state = "EXPECTING_COLON"
    => /\ Len(stack) > 0
       /\ stack[Len(stack)].type = "object"
       /\ stack[Len(stack)].currentKey # NoKey
       /\ stack[Len(stack)].currentKey # <<>>

\* the string opened before position i closes at or after i
RECURSIVE ClosesString(_, _, _, _)
ClosesString(s, i, quote, escaped) ==
    IF i > Len(s) THEN FALSE
    ELSE IF escaped THEN ClosesString(s, i + 1, quote, FALSE)
    ELSE IF s[i] = "\\" THEN ClosesString(s, i + 1, quote, TRUE)
    ELSE IF s[i] = quote THEN TRUE
    ELSE ClosesString(s, i + 1, quote, FALSE)

\* the text is one lexeme that more input can still extend: an unterminated string, a
\* number with nothing after it, a proper prefix of a keyword, or an unquoted key with
\* nothing after it
IncompleteLexeme(s) ==
    /\ Len(s) > 0
    /\ \/ s[1] = "\"" /\ ~ClosesString(s, 2, "\"", FALSE)
       \/ TokOpts.allowSingleQuotes /\ s[1] = "'" /\ ~ClosesString(s, 2, "'", FALSE)
       \/ s[1] \in NUMBER_START /\ \A i \in 1..Len(s) : s[i] \in NUMBER_CHAR
       \/ \E k \in 1..3 : Len(s) < Len(Keywords[k].text) /\ StartsWith(Keywords[k].text, s)
       \/ TokOpts.allowUnquotedKeys /\ \A i \in 1..Len(s) : s[i] \in UNQUOTED_KEY_CHAR

\* C29: after every feed the tokenizer's carry buffer is empty or is one incomplete
\* lexeme, and the position is back at 0: nothing that follows a lexeme's terminator
\* stays buffered
C29_CarryBufferIsOneLexeme ==
    fed > 0
    => /\ tokenizer.position = 0
       /\ tokenizer.buffer = <<>> \/ IncompleteLexeme(tokenizer.buffer)

\* C30: whenever, after a feed, the trimmed carry buffer starts with a digit or '-',
\* getPartialToken returns PartialNumber, whatever was fed before
C30_PartialNumberFromBufferAlone ==
    (fed > 0 /\ Len(Trim(tokenizer.buffer)) > 0 /\ Trim(tokenizer.buffer)[1] \in NUMBER_START)
    => getPartialToken(tokenizer).type = "PARTIAL_NUMBER"

\* the text holds the identifier `key` whole (no identifier character before or after
\* it) and the character that follows it has been fed
WholeIdentifier(key) ==
    \E a \in 1..Len(doc) :
        LET b == a + Len(key) - 1
        IN  /\ b < fed
            /\ SubSeq(doc, a, b) = key
            /\ a = 1 \/ doc[a - 1] \notin UNQUOTED_KEY_CHAR
            /\ doc[b + 1] \notin UNQUOTED_KEY_CHAR

\* C31: with unquoted keys allowed, every Key token a feed of an object's text produces
\* is a whole identifier of the text whose terminator has arrived, however the text is
\* split
C31_UnquotedKeyEmittedWhole ==
    (TokOpts.allowUnquotedKeys /\ fed > 0 /\ doc[1] = "{")
    => \A i \in 1..Len(tokenizer.tokens) :
           tokenizer.tokens[i].type = "KEY" => WholeIdentifier(tokenizer.tokens[i].value.v)

\* the text is an array of scalars at the root
RootArrayOfScalars ==
    /\ Reference.ok /\ Reference.value.k = "array"
    /\ \A n \in 1..Len(Reference.value.v) : Reference.value.v[n].k \in ScalarKinds

\* C32: once a root array of n scalar elements has closed, completedFields is exactly
\* the decimal strings "0" .. "n-1" of its indices and the root path ""
C32_ArrayElementsByIndex ==
    (RootArrayOfScalars /\ Streamed /\ Returned /\ snapshot.complete)
    => snapshot.completedFields
         = {ToDecimal(n - 1) : n \in 1..Len(Reference.value.v)} \cup {<<>>}

\* C33: the root path "" is in completedFields only when the root value itself has been
\* completed: while a container of a well-formed text is open and no error has been
\* reported, closing a container nested in it records that container's own path, never
\* the root path
C33_RootPathOnlyWhenRootCloses ==
    (Reference.ok /\ fed > 0 /\ ~HasEvent("onError") /\ <<>> \in completedPaths)
    => stack = <<>>

\* texts whose last element or member is followed by a comma
TrailingCommaDocs == {Chars("[1,]"), Chars("{\"a\":1,}")}

\* C34: with llmMode and allowTrailingCommas both off, the feed that delivers the
\* closing token after a trailing comma raises and leaves the state Error
C34_StrictTrailingCommaRaises ==
    (~options.llmMode /\ ~options.allowTrailingCommas /\ doc \in TrailingCommaDocs /\ Streamed)
    => raised /\ state = "ERROR"

\* the value found in `value` by following `path`, undefined when there is none
RECURSIVE ValueAt(_, _)
ValueAt(value, path) ==
    IF Len(path) = 0 THEN value
    ELSE IF value.k = "object"
    THEN IF HasKey(value, Head(path)) THEN ValueAt(ObjGet(value, Head(path)), Tail(path))
         ELSE Undefined
    ELSE IF value.k = "array"
    THEN LET Nth(n) == IF n.k = "NaN" \/ n.v < 0 \/ n.v + 1 > Len(value.v) THEN Undefined
                       ELSE ValueAt(value.v[n.v + 1], Tail(path))
         IN  Nth(parseInt(Head(path)))
    ELSE Undefined

\* `whole` is a container of the kind of `part` that holds every member or element
\* of `part`
Holds(whole, part) ==
    /\ whole.k = part.k
    /\ part.k = "object"
         => \A n \in 1..Len(part.v) :
                HasKey(whole, part.v[n].key) /\ ObjGet(whole, part.v[n].key) = part.v[n].value
    /\ part.k = "array"
         => Len(whole.v) >= Len(part.v) /\ SubSeq(whole.v, 1, Len(part.v)) = part.v

\* C35: in every snapshot taken while the root container of a well-formed text is open
\* and no error has been reported, data shows each nested container that is still
\* open and has completed a member or element, at its position, with the members and
\* elements it has completed so far
C35_OpenContainersVisibleInData ==
    (Returned /\ Reference.ok /\ ~HasEvent("onError") /\ Len(stack) > 0)
    => \A j \in 2..Len(stack) :
           Len(stack[j].data.v) > 0
           => Holds(ValueAt(snapshot.data, PositionOf(j)), stack[j].data)

\* C36: once a snapshot has reported complete, every later feed, in both modes, leaves
\* the state Complete and the data unchanged
C36_CompleteIsAbsorbing ==
    [][(Returned /\ snapshot.complete /\ fed' > fed)
       => /\ state' = "COMPLETE"
          /\ result' = snapshot.data
          /\ ~raised' /\ snapshot'.complete /\ snapshot'.data = snapshot.data]_vars

\* the positions in events of the onComplete calls made since the last reset
Completions == {i \in 1..Len(events) : events[i].e = "onComplete"}

\* C37: since the last reset onComplete has fired at most once; no onCompleteField or
\* onPartialObject call follows it; and its argument is the data of the snapshot that
\* reports complete
C37_OnCompleteOnceAndLast ==
    /\ Cardinality(Completions) <= 1
    /\ \A i \in Completions :
           /\ \A n \in (i + 1)..Len(events) :
                  events[n].e \notin {"onCompleteField", "onPartialObject"}
           /\ (Returned /\ snapshot.complete) => events[i].data = snapshot.data
    /\ (Returned /\ snapshot.complete) => Completions # {}

\* a nested text has completed after more than one feed: onComplete has fired, after
\* the calls for the members and for the objects closed before
C37_Witness ==
    /\ Returned /\ snapshot.complete /\ doc = Chars("{\"a\":{\"b\":1}}")
    /\ Cardinality(Completions) = 1
    /\ \E n \in 1..Len(events) : events[n].e = "onPartialObject" /\ n + 1 \in Completions
    /\ HasEvent("onCompleteField")

\* C38: in every snapshot that reports complete, of a well-formed text parsed without
\* any error, pendingFields is empty
C38_NothingPendingWhenComplete ==
    (Returned /\ Reference.ok /\ ~HasEvent("onError") /\ snapshot.complete)
    => snapshot.pendingFields = {}

\* C39: in no snapshot do two entries of errors have the same path, keyword and message
C39_ViolationReportedOnce ==
    Returned
    => \A i, n \in 1..Len(snapshot.errors) :
           (/\ snapshot.errors[i].path = snapshot.errors[n].path
            /\ snapshot.errors[i].keyword = snapshot.errors[n].keyword
            /\ snapshot.errors[i].message = snapshot.errors[n].message)
           => i = n

\* C40: every validate, canBeType and getSchemaAtPath call on a schema whose $ref
\* values are same-document pointers returns: resolving the references never exhausts
\* the call stack, also when definitions refer to themselves or to each other
C40_RefResolutionReturns == resolving.k # "RangeError"

====
